---- MODULE Spec2Model ----
(***************************************************************************)
(* Model of the generic-constraint diagnostic pass of the analyzer         *)
(* (GenericConstraintMismatchChecker): one walk over the syntax nodes of   *)
(* a file, checking call expressions and doc tag types against the         *)
(* `extends` bounds of the generic parameters they instantiate.            *)
(* Further sections model the hover rendering of function types, the       *)
(* search for the origin of an enum variable, the command-line check that  *)
(* runs the diagnostics of every workspace file in a task of its own, and  *)
(* the quick-fix code actions offered for the diagnostics of a file.       *)
(***************************************************************************)
EXTENDS Integers, Sequences, FiniteSets, TLC

VARIABLES pc, node, params, extend_types, diags, checks, hover, origin,
          cli, cancelled, code_action

\* the state of the diagnostic pass on the node it visits
pass == <<node, params, extend_types, diags, checks>>

\* the state outside the walk of the diagnostic pass
others == <<hover, origin, cli, cancelled, code_action>>

vars == <<pc, pass, others>>

----------------------------------------------------------------------------
(* Bounds of the model *)

\* longest typed-parameter list of a signature
MaxParams == 2
\* longest explicit argument list of a call
MaxArgs == 2
\* longest type list of one doc tag
MaxTypeList == 2
\* most type arguments of one applied generic type
MaxTypeArgs == 2

SeqUpTo(S, n) ==
    UNION {[1..m -> S] : m \in 0..n}

----------------------------------------------------------------------------
(* LuaType values and Option *)

None == [k |-> "None"]
Some(x) == [k |-> "Some", v |-> x]
InferErr == [k |-> "InferErr"]
StringType == [k |-> "String"]
NilType == [k |-> "Nil"]
MultiLineUnion(unions) == [k |-> "MultiLineUnion", unions |-> unions]
Union(types) == [k |-> "Union", types |-> types]
UnknownType == [k |-> "Unknown"]
SelfInfer == [k |-> "SelfInfer"]
StringConst(v) == [k |-> "StringConst", v |-> v]
Ref(id) == [k |-> "Ref", id |-> id]
Generic(base, ps) == [k |-> "Generic", base |-> base, params |-> ps]
Func(i) == [scope |-> "Func", idx |-> i]
Type(i) == [scope |-> "Type", idx |-> i]
TplRef(tpl) == [k |-> "TplRef", tpl |-> tpl]
StrTplRef(prefix, suffix, tpl) ==
    [k |-> "StrTplRef", prefix |-> prefix, suffix |-> suffix, tpl |-> tpl]

\* LuaType::is_string: the string type or a string constant
is_string(t) ==
    t.k \in {"String", "StringConst", "DocStringConst"}

----------------------------------------------------------------------------
(* The database: type declarations, their generic parameters, members *)

\* declared super types (transitively closed) of each declared type
TypeDecls ==
    {"A", "B", "C", "D", "ns.D_t", "Box", "Opt", "Pair", "Loop", "Cyc"}

supers(id) ==
    CASE id \in {"B", "ns.D_t"} -> {"A"}
      [] OTHER -> {}

\* LuaTypeIndex::get_generic_params: None for a type without a list
get_generic_params(id) ==
    CASE id = "Box" -> Some(<< <<"T", Ref("C")>> >>)
      [] id = "Opt" -> Some(<< <<"T", None>>, <<"U", Ref("A")>> >>)
      [] id = "Pair" -> Some(<< <<"K", StringType>>, <<"V", Ref("A")>> >>)
      [] id = "Cyc" -> Some(<< <<"T", Ref("Loop")>> >>)
      [] OTHER -> None

\* the alias declarations and their origin; "Loop" is an alias of itself
Aliases == {"Loop", "Color"}

\* the two described branches of the alias "Color"
ColorUnion ==
    MultiLineUnion(<< [ty |-> StringConst("red"), description |-> Some("warm")],
                      [ty |-> StringConst("blue"), description |-> None] >>)

alias_origin(id) ==
    IF id = "Color" THEN ColorUnion ELSE Ref("Loop")

\* LuaMemberIndex::get_current_owner
Members == {"mBox", "mElem", "mPlain"}

get_current_owner(m) ==
    CASE m = "mBox" -> [k |-> "Type", id |-> "Box"]
      [] m = "mPlain" -> [k |-> "Type", id |-> "A"]
      [] m = "mElem" -> [k |-> "Element"]
      [] OTHER -> None

----------------------------------------------------------------------------
(* type_check: structural / nominal compatibility *)

Ok == [k |-> "Ok"]
TypeNotMatch == [k |-> "TypeNotMatch"]
DonotCheck == [k |-> "DonotCheck"]
TypeRecursion == [k |-> "TypeRecursion"]
TypeNotMatchWithReason(r) == [k |-> "TypeNotMatchWithReason", reason |-> r]

is_ok(r) == r.k = "Ok"

\* the comparison with the set of the aliases already expanded
RECURSIVE type_check_guard(_, _, _)
type_check_guard(expected, actual, visited) ==
    IF expected = actual THEN Ok
    ELSE IF actual.k = "Unknown" \/ expected.k = "Unknown" THEN DonotCheck
    ELSE IF expected.k = "Ref" /\ expected.id \in Aliases THEN
        IF expected.id \in visited THEN TypeRecursion
        ELSE type_check_guard(alias_origin(expected.id), actual,
                              visited \cup {expected.id})
    ELSE IF expected.k = "String" /\ actual.k = "StringConst" THEN Ok
    ELSE IF expected.k = "Ref" /\ actual.k = "Ref" THEN
        IF actual.id \in TypeDecls /\ expected.id \in supers(actual.id)
        THEN Ok
        ELSE TypeNotMatchWithReason("not a subclass")
    ELSE TypeNotMatch

type_check(expected, actual) ==
    type_check_guard(expected, actual, {})

\* humanize_type: the Minimal level does not spell out a constant
humanize_type(t, level) ==
    CASE t.k = "Ref" -> t.id
      [] t.k = "String" -> "string"
      [] t.k = "Nil" -> "nil"
      [] t.k = "Unknown" -> "unknown"
      [] t.k = "StringConst" ->
            IF level = "Minimal" THEN "string" ELSE "\"" \o t.v \o "\""
      [] OTHER -> "any"

----------------------------------------------------------------------------
(* Diagnostics.  A context is the pair of the diagnostics added and the    *)
(* type_check calls made while one node is visited, plus the extend_type   *)
(* computed for each parameter of a call.                                  *)

EmptyCtx == [diags |-> <<>>, checks |-> <<>>, exts |-> <<>>]

ArgRange(i) == [k |-> "arg", i |-> i]
DocTypeRange(j) == [k |-> "doc_type", i |-> j]

\* every failure is given the empty reason
reason_message_blank(result) ==
    ""

reason_message(result) ==
    CASE result.k = "TypeNotMatchWithReason" -> result.reason
      [] result.k \in {"TypeNotMatch", "DonotCheck"} -> ""
      [] result.k = "TypeRecursion" -> "type recursion"

\* t!("the generic constraint must be a subclass of %{source}. %{reason}"),
\* the back quotes around the source written as apostrophes
constraint_message(source, reason) ==
    "the generic constraint must be a subclass of '" \o source
        \o "'. " \o reason

add_type_check_diagnostic(ctx, range, extend_type, result) ==
    IF result.k = "Ok" THEN ctx
    ELSE [ctx EXCEPT !.diags = Append(@,
             [code |-> "GenericConstraintMismatch",
              range |-> range,
              source |-> extend_type,
              reason |-> reason_message(result),
              message |-> constraint_message(humanize_type(extend_type, "Simple"),
                                             reason_message(result))])]

\* semantic_model.type_check, with the call recorded in the context
logged(ctx, site, expected, actual) ==
    [ctx EXCEPT !.checks = Append(@,
        [site |-> site, expected |-> expected, actual |-> actual])]

----------------------------------------------------------------------------
(* check_call_expr and its helpers.  A call expression carries the         *)
(* inferred type of its prefix, the signature found for it, its call       *)
(* syntax, the inferred types of its explicit arguments (argument i has    *)
(* range ArgRange(i)), and the semantic declaration of its prefix.         *)

\* the two asymmetric cases exchanged
effective_params_swapped(is_colon_call, signature) ==
    LET ps == signature.params IN
    CASE is_colon_call = signature.is_colon_define -> ps
      [] is_colon_call /\ ~signature.is_colon_define ->
            << <<"self", SelfInfer>> >> \o ps
      [] ~is_colon_call /\ signature.is_colon_define ->
            IF Len(ps) >= 1 THEN Tail(ps) ELSE ps

\* the leading parameter is not removed for a colon call
effective_params_keep(is_colon_call, signature) ==
    LET ps == signature.params IN
    CASE is_colon_call = signature.is_colon_define -> ps
      [] ~is_colon_call /\ signature.is_colon_define ->
            << <<"self", SelfInfer>> >> \o ps
      [] is_colon_call /\ ~signature.is_colon_define -> ps

\* self is inserted for every colon-defined signature
effective_params_always_self(is_colon_call, signature) ==
    LET ps == signature.params IN
    IF signature.is_colon_define
    THEN << <<"self", SelfInfer>> >> \o ps
    ELSE IF is_colon_call /\ Len(ps) >= 1 THEN Tail(ps) ELSE ps

\* the parameter list adjusted for the self receiver
effective_params(is_colon_call, signature) ==
    LET ps == signature.params IN
    CASE is_colon_call = signature.is_colon_define -> ps
      [] ~is_colon_call /\ signature.is_colon_define ->
            << <<"self", SelfInfer>> >> \o ps
      [] is_colon_call /\ ~signature.is_colon_define ->
            IF Len(ps) >= 1 THEN Tail(ps) ELSE ps

\* Vec::get(i), then the `extends` type of the entry
extend_at(generic_params, i) ==
    IF i < Len(generic_params) THEN generic_params[i + 1][2] ELSE None

\* a type-scoped template indexed into the signature's list
get_extend_type_mixed(call_expr, tpl_id, signature) ==
    extend_at(signature.generic_params, tpl_id.idx)

get_extend_type(call_expr, tpl_id, signature) ==
    IF tpl_id.scope = "Func"
    THEN extend_at(signature.generic_params, tpl_id.idx)
    ELSE
        IF ~call_expr.has_prefix THEN None
        ELSE LET semantic_decl == call_expr.prefix_decl IN
        IF semantic_decl.k = "Member"
        THEN LET owner == get_current_owner(semantic_decl.id) IN
             IF owner.k = "Type"
             THEN LET generic_params == get_generic_params(owner.id) IN
                  IF generic_params.k = "Some"
                  THEN extend_at(generic_params.v, tpl_id.idx)
                  ELSE None
             ELSE None
        ELSE None

\* call_expr.get_args_list()?.get_args().nth(param_index)
nth_arg(call_expr, param_index) ==
    IF call_expr.args.k = "Some" /\ param_index < Len(call_expr.args.v)
    THEN Some(call_expr.args.v[param_index + 1])
    ELSE None

\* the type name is the string constant alone
full_type_name_bare(str_tpl_ref, str) ==
    str

\* format!("{}{}{}", prefix, str, suffix)
full_type_name(str_tpl_ref, str) ==
    str_tpl_ref.prefix \o str \o str_tpl_ref.suffix

\* without the string/string case
check_str_tpl_ref_no_carve_out(ctx, call_expr, param_index, extend_type, str_tpl_ref) ==
    IF extend_type = None THEN ctx
    ELSE LET arg_expr == nth_arg(call_expr, param_index) IN
    IF arg_expr = None THEN ctx
    ELSE LET arg_type == arg_expr.v IN
    IF arg_type = InferErr THEN ctx
    ELSE IF arg_type.k = "StringConst"
    THEN LET actual == Ref(str_tpl_ref.prefix \o arg_type.v
                             \o str_tpl_ref.suffix)
             result == type_check(extend_type, actual)
         IN add_type_check_diagnostic(
                logged(ctx, ArgRange(param_index), extend_type, actual),
                ArgRange(param_index), extend_type, result)
    ELSE ctx

check_str_tpl_ref(ctx, call_expr, param_index, extend_type, str_tpl_ref) ==
    IF extend_type = None THEN ctx
    ELSE LET arg_expr == nth_arg(call_expr, param_index) IN
    IF arg_expr = None THEN ctx
    ELSE LET arg_type == arg_expr.v IN
    IF arg_type = InferErr THEN ctx
    ELSE IF is_string(extend_type) /\ is_string(arg_type) THEN ctx
    ELSE IF arg_type.k = "StringConst"
    THEN LET actual == Ref(full_type_name(str_tpl_ref, arg_type.v))
             result == type_check(extend_type, actual)
         IN add_type_check_diagnostic(
                logged(ctx, ArgRange(param_index), extend_type, actual),
                ArgRange(param_index), extend_type, result)
    ELSE ctx

\* an unresolved bound is reported as a mismatch
check_tpl_ref_unbounded_fails(ctx, call_expr, param_index, extend_type) ==
    IF extend_type = None
    THEN add_type_check_diagnostic(ctx, ArgRange(param_index), None,
                                   TypeNotMatch)
    ELSE LET arg_expr == nth_arg(call_expr, param_index) IN
    IF arg_expr = None THEN ctx
    ELSE LET arg_type == arg_expr.v IN
    IF arg_type = InferErr THEN ctx
    ELSE LET result == type_check(extend_type, arg_type)
         IN add_type_check_diagnostic(
                logged(ctx, ArgRange(param_index), extend_type, arg_type),
                ArgRange(param_index), extend_type, result)

\* the argument after the aligned one is checked
check_tpl_ref_shifted(ctx, call_expr, param_index, extend_type) ==
    IF extend_type = None THEN ctx
    ELSE LET arg_expr == nth_arg(call_expr, param_index + 1) IN
    IF arg_expr = None THEN ctx
    ELSE LET arg_type == arg_expr.v IN
    IF arg_type = InferErr THEN ctx
    ELSE LET result == type_check(extend_type, arg_type)
         IN add_type_check_diagnostic(
                logged(ctx, ArgRange(param_index + 1), extend_type,
                       arg_type),
                ArgRange(param_index + 1), extend_type, result)

check_tpl_ref(ctx, call_expr, param_index, extend_type) ==
    IF extend_type = None THEN ctx
    ELSE LET arg_expr == nth_arg(call_expr, param_index) IN
    IF arg_expr = None THEN ctx
    ELSE LET arg_type == arg_expr.v IN
    IF arg_type = InferErr THEN ctx
    ELSE LET result == type_check(extend_type, arg_type)
         IN add_type_check_diagnostic(
                logged(ctx, ArgRange(param_index), extend_type, arg_type),
                ArgRange(param_index), extend_type, result)

\* one iteration of the loop over the effective parameters
check_param(ctx, call_expr, signature, i, param_type) ==
    CASE param_type.k = "StrTplRef" ->
            LET extend_type ==
                    get_extend_type(call_expr, param_type.tpl, signature)
                c == [ctx EXCEPT !.exts = Append(@, extend_type)]
            IN check_str_tpl_ref(c, call_expr, i, extend_type, param_type)
      [] param_type.k = "TplRef" ->
            LET extend_type ==
                    get_extend_type(call_expr, param_type.tpl, signature)
                c == [ctx EXCEPT !.exts = Append(@, extend_type)]
            IN check_tpl_ref(c, call_expr, i, extend_type)
      [] OTHER -> [ctx EXCEPT !.exts = Append(@, None)]

RECURSIVE check_params(_, _, _, _, _)
check_params(ctx, call_expr, signature, ps, i) ==
    IF i >= Len(ps) THEN ctx
    ELSE check_params(
             check_param(ctx, call_expr, signature, i, ps[i + 1][2]),
             call_expr, signature, ps, i + 1)

\* the result is the adjusted parameter list and the context
check_call_expr(ctx, call_expr) ==
    IF ~call_expr.has_prefix \/ call_expr.function.k # "Signature"
       \/ call_expr.signature = None
    THEN [params |-> <<>>, ctx |-> ctx]
    ELSE LET signature == call_expr.signature.v
             ps == effective_params(call_expr.is_colon_call, signature)
         IN [params |-> ps,
             ctx |-> check_params(ctx, call_expr, signature, ps, 0)]

----------------------------------------------------------------------------
(* check_doc_tag_type.  A doc tag carries the list of the types inferred   *)
(* for its doc types (doc type j has range DocTypeRange(j)).  A `?` on an  *)
(* absent value returns from the whole function: ret is set.               *)

\* the diagnostic is added when the check succeeds
check_generic_param_inverted(ctx, range, generic_params, i, param_type) ==
    IF i >= Len(generic_params) THEN [ctx |-> ctx, ret |-> TRUE]
    ELSE LET extend_type == generic_params[i + 1][2] IN
    IF extend_type = None THEN [ctx |-> ctx, ret |-> TRUE]
    ELSE LET result == type_check(extend_type, param_type)
             c == logged(ctx, range, extend_type, param_type)
         IN [ctx |-> IF is_ok(result)
                     THEN add_type_check_diagnostic(c, range, extend_type,
                                                    TypeNotMatch)
                     ELSE c,
             ret |-> FALSE]

\* one iteration of the loop over the arguments of an applied generic type
check_generic_param(ctx, range, generic_params, i, param_type) ==
    IF i >= Len(generic_params) THEN [ctx |-> ctx, ret |-> TRUE]
    ELSE LET extend_type == generic_params[i + 1][2] IN
    IF extend_type = None THEN [ctx |-> ctx, ret |-> TRUE]
    ELSE LET result == type_check(extend_type, param_type)
             c == logged(ctx, range, extend_type, param_type)
         IN [ctx |-> IF ~is_ok(result)
                     THEN add_type_check_diagnostic(c, range, extend_type,
                                                    result)
                     ELSE c,
             ret |-> FALSE]

RECURSIVE check_generic_params(_, _, _, _, _)
check_generic_params(ctx, range, generic_params, ps, i) ==
    IF i >= Len(ps) THEN [ctx |-> ctx, ret |-> FALSE]
    ELSE LET r == check_generic_param(ctx, range, generic_params, i,
                                      ps[i + 1])
         IN IF r.ret THEN r
            ELSE check_generic_params(r.ctx, range, generic_params, ps,
                                      i + 1)

\* one iteration of the loop over the type list
check_doc_type(ctx, j, type_ref) ==
    IF type_ref.k # "Generic" THEN [ctx |-> ctx, ret |-> FALSE]
    ELSE LET generic_params == get_generic_params(type_ref.base) IN
    IF generic_params = None THEN [ctx |-> ctx, ret |-> TRUE]
    ELSE check_generic_params(ctx, DocTypeRange(j), generic_params.v,
                              type_ref.params, 0)

RECURSIVE check_doc_tag_type(_, _, _)
check_doc_tag_type(ctx, type_list, j) ==
    IF j >= Len(type_list) THEN ctx
    ELSE LET r == check_doc_type(ctx, j, type_list[j + 1])
         IN IF r.ret THEN r.ctx
            ELSE check_doc_tag_type(r.ctx, type_list, j + 1)

----------------------------------------------------------------------------
(* The syntax nodes a file can contain *)

ParamName(i) == <<"a", "b", "c", "d">>[i]

\* the types a declared parameter can have (None: an untyped parameter)
ParamTypes ==
    {None, TplRef(Func(0)), TplRef(Type(0)),
     StrTplRef("", "", Func(0)), StrTplRef("ns.", "_t", Func(1))}

\* the generic parameter lists a signature can declare
GenericParamLists ==
    { << <<"T", Ref("A")>> >>,
      << <<"T", StringType>>, <<"U", Ref("A")>> >>,
      << <<"T", None>>, <<"U", StringType>> >> }

Signatures ==
    { [params |-> [i \in 1..Len(ts) |-> <<ParamName(i), ts[i]>>],
       is_colon_define |-> cd,
       generic_params |-> gp] :
         ts \in SeqUpTo(ParamTypes, MaxParams),
         cd \in BOOLEAN,
         gp \in GenericParamLists }

\* what infer_expr yields for an argument expression
ArgTypes ==
    {InferErr, StringConst("B"), StringConst("D"), Ref("B")}

ArgLists ==
    {None} \cup {Some(a) : a \in SeqUpTo(ArgTypes, MaxArgs)}

\* what find_decl yields for the prefix expression of a call
PrefixDecls ==
    {[k |-> "LuaDecl"]} \cup {[k |-> "Member", id |-> m] : m \in Members}

\* a call whose prefix is a function with a signature in the database
ResolvedCall(sg, cc, as, pd) ==
    [kind |-> "CallExpr", has_prefix |-> TRUE,
     function |-> [k |-> "Signature"], signature |-> Some(sg),
     is_colon_call |-> cc, args |-> as, prefix_decl |-> pd]

\* calls without a prefix expression, with a prefix whose type cannot be
\* inferred or is not a signature, or whose signature is not in the index
UnresolvedCalls ==
    { [kind |-> "CallExpr", has_prefix |-> hp,
       function |-> f, signature |-> None,
       is_colon_call |-> cc, args |-> Some(<<Ref("B")>>),
       prefix_decl |-> [k |-> "LuaDecl"]] :
         hp \in BOOLEAN,
         f \in {InferErr, Ref("A"), [k |-> "Signature"]},
         cc \in BOOLEAN }

\* the types a doc type can be inferred to
TypeArgs == {Ref("B"), StringType}

GenericBases == {"Opt", "Pair", "A"}

DocTypes ==
    {Ref("A")} \cup
    { Generic(b, ps) :
        b \in GenericBases,
        ps \in SeqUpTo(TypeArgs, MaxTypeArgs) \ {<<>>} }

\* applied generic types whose check is skipped or meets a cyclic alias
UncheckableDocTypes ==
    { Generic("Cyc", <<Ref("B")>>),
      Generic("Pair", <<UnknownType, Ref("B")>>),
      Generic("Pair", <<StringType, UnknownType>>) }

\* calls whose argument has the unknown type or whose bound is a cyclic
\* alias
UncheckableCalls ==
    { ResolvedCall([params |-> << <<"a", p>> >>,
                    is_colon_define |-> FALSE,
                    generic_params |-> << <<"T", b>> >>],
                   FALSE, Some(<<a>>), [k |-> "LuaDecl"]) :
        p \in {TplRef(Func(0)), StrTplRef("", "", Func(0))},
        b \in {Ref("A"), Ref("Loop")},
        a \in {UnknownType, Ref("B"), StringConst("B")} }

DocTagType(tl) ==
    [kind |-> "DocTagType", type_list |-> tl]

\* no hover request has been served
NoHover == [op |-> "None"]

\* enum_variable_is_param has not been called
NoQuery == [status |-> "idle"]

\* the command-line check has not been started
NotStarted == [status |-> "idle"]
\* no code action request is being answered
NoRequest == [status |-> "idle"]

NoNode == [kind |-> "None"]

----------------------------------------------------------------------------
(* The walk of GenericConstraintMismatchChecker::check.  pc = "next": the  *)
(* iterator is about to yield a node; pc = "visited": the node has been    *)
(* matched and checked.  diags holds the diagnostics the visit of the      *)
(* current node added to the context (add_diagnostic only appends, and     *)
(* the pass never reads the context), checks the type_check calls it made, *)
(* params and extend_types the locals of check_call_expr.                  *)

Init ==
    /\ pc = "next"
    /\ node = NoNode
    /\ params = <<>>
    /\ extend_types = <<>>
    /\ diags = <<>>
    /\ checks = <<>>
    /\ hover = NoHover
    /\ origin = NoQuery
    /\ cli = NotStarted
    /\ cancelled = FALSE
    /\ code_action = NoRequest

VisitCallExpr(call_expr) ==
    LET r == check_call_expr(EmptyCtx, call_expr) IN
    /\ node' = call_expr
    /\ params' = r.params
    /\ extend_types' = r.ctx.exts
    /\ diags' = r.ctx.diags
    /\ checks' = r.ctx.checks

CheckCallExpr ==
    /\ pc = "next"
    /\ \/ \E call_expr \in UnresolvedCalls : VisitCallExpr(call_expr)
       \/ \E call_expr \in UncheckableCalls : VisitCallExpr(call_expr)
       \/ \E sg \in Signatures, cc \in BOOLEAN, as \in ArgLists,
             pd \in PrefixDecls :
               VisitCallExpr(ResolvedCall(sg, cc, as, pd))
    /\ pc' = "visited"
    /\ UNCHANGED others

VisitDocTagType(tl) ==
    LET c == check_doc_tag_type(EmptyCtx, tl, 0) IN
    /\ node' = DocTagType(tl)
    /\ diags' = c.diags
    /\ checks' = c.checks

CheckDocTagType ==
    /\ pc = "next"
    /\ \/ \E m \in 0..MaxTypeList :
             \E tl \in [1..m -> DocTypes] : VisitDocTagType(tl)
       \/ \E t \in UncheckableDocTypes : VisitDocTagType(<<t>>)
    /\ params' = <<>>
    /\ extend_types' = <<>>
    /\ pc' = "visited"
    /\ UNCHANGED others

\* any other syntax node: nothing is checked
OtherNode ==
    /\ pc = "next"
    /\ node' = [kind |-> "Other"]
    /\ params' = <<>>
    /\ extend_types' = <<>>
    /\ diags' = <<>>
    /\ checks' = <<>>
    /\ pc' = "visited"
    /\ UNCHANGED others

\* the iterator moves on to the following descendant
NextNode ==
    /\ pc = "visited"
    /\ pc' = "next"
    /\ node' = NoNode
    /\ params' = <<>>
    /\ extend_types' = <<>>
    /\ diags' = <<>>
    /\ checks' = <<>>
    /\ UNCHANGED others

Next ==
    \/ CheckCallExpr
    \/ CheckDocTagType
    \/ OtherNode
    \/ NextNode

Spec == Init /\ [][Next]_vars

----------------------------------------------------------------------------
(* Properties of the pass *)

VisitedDocTag == pc = "visited" /\ node.kind = "DocTagType"

VisitedCall ==
    /\ pc = "visited"
    /\ node.kind = "CallExpr"
    /\ node.has_prefix
    /\ node.function.k = "Signature"
    /\ node.signature # None

DiagsAt(range) == {n \in 1..Len(diags) : diags[n].range = range}
ChecksAt(range) == {n \in 1..Len(checks) : checks[n].site = range}

\* the declared generic parameters of the base of an applied generic type
DeclaredGenerics(base) ==
    IF get_generic_params(base) = None THEN <<>>
    ELSE get_generic_params(base).v

\* the positions of an applied generic type whose bound is b and is violated
ViolatedPositions(t, b) ==
    {i \in 0..(Len(t.params) - 1) :
        /\ i < Len(DeclaredGenerics(t.base))
        /\ DeclaredGenerics(t.base)[i + 1][2] = b
        /\ ~is_ok(type_check(b, t.params[i + 1]))}

BoundTypes == {Ref("A"), Ref("C"), Ref("Loop"), StringType}

\* C1: in a doc tag, every position of an applied generic type whose
\* declared bound is violated by the supplied argument gets exactly one
\* diagnostic at the range of the applied type, whatever the other
\* positions and the earlier types of the list are.
C1_OneDiagnosticPerViolatedPosition ==
    VisitedDocTag =>
        \A j \in 0..(Len(node.type_list) - 1) :
            LET t == node.type_list[j + 1] IN
            t.k = "Generic" =>
                \A b \in BoundTypes :
                    Cardinality({n \in DiagsAt(DocTypeRange(j)) :
                                    diags[n].source = b})
                        = Cardinality(ViolatedPositions(t, b))

\* C2: in a doc tag, a diagnostic is emitted only for an applied generic
\* type with a position whose declared bound is violated by the supplied
\* argument: never more diagnostics than violated positions, and none for
\* a non-generic type or a base without a generic parameter list.
C2_NoFalsePositive ==
    VisitedDocTag =>
        /\ \A n \in 1..Len(diags) :
              \E j \in 0..(Len(node.type_list) - 1) :
                  /\ diags[n].range = DocTypeRange(j)
                  /\ node.type_list[j + 1].k = "Generic"
                  /\ get_generic_params(node.type_list[j + 1].base) # None
                  /\ diags[n].source \in BoundTypes
                  /\ ViolatedPositions(node.type_list[j + 1],
                                       diags[n].source) # {}
        /\ \A j \in 0..(Len(node.type_list) - 1) :
              LET t == node.type_list[j + 1] IN
              IF t.k = "Generic"
              THEN \A b \in BoundTypes :
                      Cardinality({n \in DiagsAt(DocTypeRange(j)) :
                                      diags[n].source = b})
                          <= Cardinality(ViolatedPositions(t, b))
              ELSE DiagsAt(DocTypeRange(j)) = {}

\* a compatible application followed by a violating one: one diagnostic
C2_Witness ==
    /\ VisitedDocTag
    /\ node.type_list = <<Generic("Pair", <<StringType, Ref("B")>>),
                          Generic("Pair", <<StringType, StringType>>)>>
    /\ Len(diags) = 1
    /\ diags[1].range = DocTypeRange(1)
    /\ diags[1].source = Ref("A")

\* the declared typed-parameter list of the called signature
Declared == node.signature.v.params

SelfParam == <<"self", SelfInfer>>

DotCallOfColonDefine ==
    VisitedCall /\ ~node.is_colon_call /\ node.signature.v.is_colon_define

ColonCallOfDotDefine ==
    VisitedCall /\ node.is_colon_call /\ ~node.signature.v.is_colon_define

C4_ColonCallPrependsSelf ==
    ColonCallOfDotDefine =>
        /\ Len(params) = Len(Declared) + 1
        /\ params = <<SelfParam>> \o Declared

\* C4 amended: for a colon call of a non-colon signature the effective
\* parameter list is the declared list with its leading parameter removed,
\* one shorter than the declared list; an empty declared list stays empty.
C4_ColonCallDropsLeading ==
    ColonCallOfDotDefine =>
        IF Len(Declared) >= 1
        THEN /\ Len(params) = Len(Declared) - 1
             /\ params = SubSeq(Declared, 2, Len(Declared))
        ELSE params = <<>>

C4_Witness ==
    /\ ColonCallOfDotDefine
    /\ Len(Declared) = 2
    /\ Declared[2][2] = TplRef(Func(0))
    /\ params = <<Declared[2]>>

\* C5: when the call syntax and the declaration syntax agree, the
\* effective parameter list is the declared list unchanged.
C5_AgreeingSyntaxKeepsParams ==
    (VisitedCall /\ node.is_colon_call = node.signature.v.is_colon_define)
        => params = Declared

C5_Witness ==
    /\ VisitedCall
    /\ node.is_colon_call
    /\ node.signature.v.is_colon_define
    /\ Len(Declared) = 2
    /\ Declared[1][2] # Declared[2][2]
    /\ params = Declared

\* the inferred type of the explicit argument i of the call, if any
HasArg(i) ==
    /\ node.args # None
    /\ i < Len(node.args.v)
    /\ node.args.v[i + 1] # InferErr

ArgType(i) == node.args.v[i + 1]

ParamIndexes == 0..(Len(params) - 1)

ParamType(i) == params[i + 1][2]

IsTemplate(i) == ParamType(i).k \in {"TplRef", "StrTplRef"}

\* the `extends` type of entry idx of a generic parameter list
DeclaredExtends(list, idx) ==
    IF idx + 1 \in DOMAIN list THEN list[idx + 1][2] ELSE None

\* the bound of a template by its scope: the signature's own generic
\* parameters for Func, those of the type owning the prefix member for Type
DeclaredBound(tpl) ==
    IF tpl.scope = "Func"
    THEN DeclaredExtends(node.signature.v.generic_params, tpl.idx)
    ELSE IF node.prefix_decl.k = "Member"
            /\ get_current_owner(node.prefix_decl.id).k = "Type"
         THEN DeclaredExtends(
                  DeclaredGenerics(get_current_owner(node.prefix_decl.id).id),
                  tpl.idx)
         ELSE None

\* C6: for a string-template parameter with a resolved bound and a string
\* constant argument v outside the string/string carve-out, a diagnostic is
\* emitted at the argument iff type_check(bound, Ref(prefix + v + suffix))
\* fails; for an argument that is not a string constant none is emitted.
C6_StrTplRefChecksNamedType ==
    VisitedCall =>
        \A i \in ParamIndexes :
            (/\ ParamType(i).k = "StrTplRef"
             /\ extend_types[i + 1] # None
             /\ HasArg(i)) =>
                LET bound == extend_types[i + 1]
                    tpl == ParamType(i)
                    arg == ArgType(i)
                IN IF arg.k = "StringConst"
                   THEN (is_string(bound) /\ is_string(arg))
                        \/ ((DiagsAt(ArgRange(i)) # {}) <=>
                               ~is_ok(type_check(bound,
                                   Ref(tpl.prefix \o arg.v \o tpl.suffix))))
                   ELSE DiagsAt(ArgRange(i)) = {}

\* "ns.D_t" names a subclass of the bound; "B" alone does too, but
\* "ns.B_t" names no declared type
C6_Witness ==
    /\ VisitedCall
    /\ Len(params) = 2
    /\ ParamType(0) = StrTplRef("ns.", "_t", Func(1))
    /\ ParamType(1) = StrTplRef("ns.", "_t", Func(1))
    /\ extend_types = <<Ref("A"), Ref("A")>>
    /\ node.args = Some(<<StringConst("D"), StringConst("B")>>)
    /\ DiagsAt(ArgRange(0)) = {}
    /\ DiagsAt(ArgRange(1)) = {1}

\* C7: when the resolved bound of a string-template parameter and the
\* argument's inferred type are both string types, no diagnostic is
\* emitted and no type_check is made for the parameter.
C7_StringCarveOut ==
    VisitedCall =>
        \A i \in ParamIndexes :
            (/\ ParamType(i).k = "StrTplRef"
             /\ extend_types[i + 1] # None
             /\ is_string(extend_types[i + 1])
             /\ HasArg(i)
             /\ is_string(ArgType(i))) =>
                /\ DiagsAt(ArgRange(i)) = {}
                /\ ChecksAt(ArgRange(i)) = {}

\* "ns.B_t" names no declared type
C7_Witness ==
    /\ VisitedCall
    /\ Len(params) = 1
    /\ ParamType(0) = StrTplRef("ns.", "_t", Func(1))
    /\ extend_types = <<StringType>>
    /\ node.args = Some(<<StringConst("B")>>)
    /\ diags = <<>>
    /\ checks = <<>>

\* the effective parameter list with parameter i made an untyped one
WithoutType(i) ==
    [params EXCEPT ![i + 1] = <<params[i + 1][1], None>>]

\* C8: a template parameter whose bound cannot be resolved gets no
\* diagnostic and no type_check, and the diagnostics and checks of the call
\* are those of the same call with that parameter left out of the checks.
C8_UnresolvedBoundIsSkipped ==
    VisitedCall =>
        \A i \in ParamIndexes :
            (IsTemplate(i) /\ DeclaredBound(ParamType(i).tpl) = None) =>
                /\ DiagsAt(ArgRange(i)) = {}
                /\ ChecksAt(ArgRange(i)) = {}
                /\ LET rest == check_params(EmptyCtx, node,
                                 node.signature.v, WithoutType(i), 0)
                   IN diags = rest.diags /\ checks = rest.checks
                /\ \A j \in ParamIndexes :
                      (/\ ParamType(j).k = "TplRef"
                       /\ DeclaredBound(ParamType(j).tpl) # None
                       /\ HasArg(j)) =>
                          Cardinality(ChecksAt(ArgRange(j))) = 1

\* Func(1) is beyond the one-entry generic list; the next parameter is
\* still checked and reported
C8_Witness ==
    /\ VisitedCall
    /\ Len(params) = 2
    /\ ParamType(0) = StrTplRef("ns.", "_t", Func(1))
    /\ ParamType(1) = TplRef(Func(0))
    /\ node.signature.v.generic_params = << <<"T", Ref("A")>> >>
    /\ node.args = Some(<<StringConst("D"), StringConst("B")>>)
    /\ DiagsAt(ArgRange(0)) = {}
    /\ DiagsAt(ArgRange(1)) = {1}

\* C9: the bound computed for a template parameter is the `extends` type
\* of the entry at the template's index in the list of its own scope: the
\* called signature's generic parameters for Func, the generic parameters
\* of the type owning the prefix member for Type, and no bound when the
\* prefix is not a member or its owner is not a type.
C9_BoundByTemplateScope ==
    VisitedCall =>
        /\ Len(extend_types) = Len(params)
        /\ \A i \in ParamIndexes :
              IsTemplate(i) =>
                  extend_types[i + 1] = DeclaredBound(ParamType(i).tpl)

\* index 0 of the two scopes carries different bounds
C9_Witness ==
    /\ VisitedCall
    /\ Len(params) = 2
    /\ ParamType(0) = TplRef(Func(0))
    /\ ParamType(1) = TplRef(Type(0))
    /\ node.prefix_decl = [k |-> "Member", id |-> "mBox"]
    /\ extend_types = <<Ref("A"), Ref("C")>>

\* C10: for a TplRef parameter at index i of the effective list with a
\* resolved bound, a diagnostic is emitted iff type_check(bound, type of
\* the i-th explicit argument) is not Ok, at that argument's range; with no
\* i-th argument or no inferred type nothing is emitted.
C10_TplRefChecksAlignedArgument ==
    VisitedCall =>
        /\ \A i \in ParamIndexes :
              (ParamType(i).k = "TplRef" /\ extend_types[i + 1] # None) =>
                  IF HasArg(i)
                  THEN /\ Cardinality(DiagsAt(ArgRange(i))) =
                            IF is_ok(type_check(extend_types[i + 1],
                                                ArgType(i)))
                            THEN 0 ELSE 1
                       /\ \A n \in DiagsAt(ArgRange(i)) :
                             diags[n].source = extend_types[i + 1]
                  ELSE DiagsAt(ArgRange(i)) = {}
        /\ \A n \in 1..Len(diags) :
              \E i \in ParamIndexes :
                  diags[n].range = ArgRange(i) /\ HasArg(i)

\* a dot call of a colon-defined signature: the template is at index 1 of
\* the effective list and is checked against the second argument
C10_Witness ==
    /\ DotCallOfColonDefine
    /\ Len(params) = 2
    /\ ParamType(1) = TplRef(Func(0))
    /\ extend_types[2] = Ref("A")
    /\ node.args = Some(<<Ref("B"), StringConst("B")>>)
    /\ Len(diags) = 1
    /\ diags[1].range = ArgRange(1)

----------------------------------------------------------------------------
(* The outcome of type_check and the diagnostic built from it.             *)

\* the result of the n-th recorded call of type_check
CheckResult(n) == type_check(checks[n].expected, checks[n].actual)

\* the recorded calls of type_check that did not return Ok, in order
Failing ==
    SelectSeq(checks, LAMBDA c : ~is_ok(type_check(c.expected, c.actual)))

\* the recorded calls of type_check that returned a true mismatch
TrueMismatches ==
    SelectSeq(checks, LAMBDA c :
        type_check(c.expected, c.actual).k \notin {"Ok", "DonotCheck"})

\* C11: a node gets one diagnostic for each type_check call that returned
\* a true mismatch and none for a call that returned Ok or DonotCheck, in
\* check_doc_tag_type, check_tpl_ref and check_str_tpl_ref alike.
C11_DonotCheckEmitsNothing ==
    pc = "visited" => Len(diags) = Len(TrueMismatches)

\* the reason text the three named failures are given
NamedReason(result) ==
    CASE result.k = "TypeNotMatchWithReason" -> result.reason
      [] result.k = "TypeRecursion" -> "type recursion"
      [] result.k = "TypeNotMatch" -> ""
      [] OTHER -> ""

\* C12: add_type_check_diagnostic emits nothing for Ok, and for every
\* other result exactly one diagnostic, in order, with the code
\* GenericConstraintMismatch, at the range of the check, whose message is
\* the bound rendered at the Simple level followed by the reason: the
\* carried string, "type recursion", or nothing for a plain TypeNotMatch.
C12_OneDiagnosticPerErr ==
    pc = "visited" =>
        /\ Len(diags) = Len(Failing)
        /\ \A n \in 1..Len(diags) :
              LET c == Failing[n]
                  r == type_check(c.expected, c.actual) IN
              /\ diags[n].code = "GenericConstraintMismatch"
              /\ diags[n].range = c.site
              /\ diags[n].message =
                    constraint_message(humanize_type(c.expected, "Simple"),
                                       NamedReason(r))

\* a bound that is a cyclic alias gives the "type recursion" message
C12_Witness ==
    /\ pc = "visited"
    /\ \E n \in 1..Len(diags) :
          /\ diags[n].message =
                "the generic constraint must be a subclass of 'Loop'. type recursion"
          /\ Len(checks) >= 1
    /\ Len(diags) = Len(Failing)

----------------------------------------------------------------------------
(* Hover rendering (hover_humanize.rs).  A text is a sequence of string    *)
(* pieces, a line break being the piece "\n"; the builder carries the type *)
(* description, the signature-overload list, the descriptions and the     *)
(* side list of type expansions.                                           *)

\* longest candidate list of one hover request
MaxCandidates == 3
\* most return docs of one signature
MaxReturnDocs == 2
\* most branches of one multi-line union
MaxBranches == 11

\* the texts of a sequence joined by a separator
RECURSIVE Join(_, _)
Join(texts, sep) ==
    IF Len(texts) = 0 THEN <<>>
    ELSE IF Len(texts) = 1 THEN texts[1]
    ELSE texts[1] \o sep \o Join(Tail(texts), sep)

\* str::lines: the pieces between line breaks, no empty last line
RECURSIVE Lines(_, _)
Lines(text, line) ==
    IF Len(text) = 0 THEN (IF Len(line) = 0 THEN <<>> ELSE <<line>>)
    ELSE IF text[1] = "\n" THEN <<line>> \o Lines(Tail(text), <<>>)
    ELSE Lines(Tail(text), Append(line, text[1]))

\* HoverBuilder as it is created for a request
NewBuilder(is_completion, call_function) ==
    [type_description |-> <<>>,
     signature_overload |-> None,
     descriptions |-> <<>>,
     type_expansion |-> <<>>,
     is_completion |-> is_completion,
     call_function |-> call_function]

set_type_description(b, text) ==
    [b EXCEPT !.type_description = text]

add_signature_overload(b, text) ==
    [b EXCEPT !.signature_overload =
        IF @ = None THEN Some(<<text>>) ELSE Some(Append(@.v, text))]

add_description_from_info(b, description) ==
    IF description = None THEN b
    ELSE [b EXCEPT !.descriptions = Append(@, description.v)]

add_type_expansion(b, text) ==
    [b EXCEPT !.type_expansion = Append(@, text)]

\* the entries start..end-1 (counted from 0) are taken out of the list
pop_type_expansion(b, start, end) ==
    IF start >= end \/ end > Len(b.type_expansion) THEN [b |-> b, v |-> None]
    ELSE [b |-> [b EXCEPT !.type_expansion =
                    SubSeq(@, 1, start) \o SubSeq(@, end + 1, Len(@))],
          v |-> Some(SubSeq(b.type_expansion, start + 1, end))]

\* the summary name ends after the tenth branch
SummaryBranches == 10

Min(a, b) == IF a < b THEN a ELSE b

\* one line of the expansion block of a multi-line union
branch_line(member) ==
    <<"    | ", humanize_type(member.ty, "Minimal")>>
        \o (IF member.description # None
            THEN <<" -- ", member.description.v>> ELSE <<>>)
        \o <<"\n">>

RECURSIVE branch_lines(_)
branch_lines(members) ==
    IF Len(members) = 0 THEN <<>>
    ELSE branch_line(members[1]) \o branch_lines(Tail(members))

\* the block has a line for the first SummaryBranches branches only
hover_multi_line_union_type_capped(b, multi_union, ty_name) ==
    LET members == multi_union.unions
        shown == SubSeq(members, 1, Min(SummaryBranches, Len(members)))
        type_name ==
            IF ty_name = None
            THEN Some(<<"(">>
                      \o Join([i \in 1..Len(shown) |->
                                 <<humanize_type(shown[i].ty, "Simple")>>],
                              <<"|">>)
                      \o <<")">>)
            ELSE ty_name
        text == type_name.v \o <<":", "\n">> \o branch_lines(shown)
    IN [b |-> add_type_expansion(b, text), v |-> type_name]

hover_multi_line_union_type(b, multi_union, ty_name) ==
    LET members == multi_union.unions
        shown == SubSeq(members, 1, Min(SummaryBranches, Len(members)))
        type_name ==
            IF ty_name = None
            THEN Some(<<"(">>
                      \o Join([i \in 1..Len(shown) |->
                                 <<humanize_type(shown[i].ty, "Simple")>>],
                              <<"|">>)
                      \o <<")">>)
            ELSE ty_name
        text == type_name.v \o <<":", "\n">> \o branch_lines(members)
    IN [b |-> add_type_expansion(b, text), v |-> type_name]

\* Option<String>::unwrap_or_default of a returned name
unwrap_or_default(r) ==
    [b |-> r.b, v |-> IF r.v = None THEN <<>> ELSE r.v.v]

RECURSIVE hover_humanize_type(_, _, _)
RECURSIVE format_union_type(_, _, _, _)
RECURSIVE format_union_after(_, _, _, _)

\* the members of a union are rendered in order through the callback, here
\* hover_humanize_type on the shared builder, and their texts are joined
format_union_type(b, types, level, done) ==
    IF Len(types) = 0
    THEN [b |-> b, v |-> <<"(">> \o Join(done, <<"|">>) \o <<")">>]
    ELSE format_union_after(hover_humanize_type(b, types[1], level),
                            Tail(types), level, done)

format_union_after(r, types, level, done) ==
    format_union_type(r.b, types, level, Append(done, r.v))

hover_union_type(b, union, level) ==
    format_union_type(b, union.types, level, <<>>)

hover_humanize_type(b, ty, fallback_level) ==
    CASE ty.k = "Ref" /\ ty.id \in TypeDecls \cup Aliases
            /\ ty.id \in Aliases
            /\ alias_origin(ty.id).k = "MultiLineUnion" ->
            unwrap_or_default(
                hover_multi_line_union_type(b, alias_origin(ty.id),
                                            Some(<<ty.id>>)))
      [] ty.k = "MultiLineUnion" ->
            unwrap_or_default(hover_multi_line_union_type(b, ty, None))
      [] ty.k = "Union" -> hover_union_type(b, ty, "Detailed")
      [] OTHER ->
            [b |-> b, v |-> <<humanize_type(ty, fallback_level)>>]

\* the lines after the first of every popped expansion block, in order
RECURSIVE skip_first_lines(_)
skip_first_lines(blocks) ==
    IF Len(blocks) = 0 THEN <<>>
    ELSE Tail(Lines(blocks[1], <<>>)) \o skip_first_lines(Tail(blocks))

\* every line not seen before, each after a line break
RECURSIVE unseen_lines(_, _)
unseen_lines(lines, seen) ==
    IF Len(lines) = 0 THEN <<>>
    ELSE IF lines[1] \in seen THEN unseen_lines(Tail(lines), seen)
    ELSE <<"\n">> \o lines[1]
            \o unseen_lines(Tail(lines), seen \cup {lines[1]})

\* the merged block is labelled with the index of the return counted from 0
relabel_popped_from_zero(popped, r, i) ==
    IF popped.v = None THEN r
    ELSE [b |-> add_type_expansion(popped.b,
                   <<"return #", ToString(i)>>
                       \o unseen_lines(skip_first_lines(popped.v.v), {})),
          v |-> r.v]

\* lines 535-549: the popped blocks become one block labelled with the
\* position of the return
relabel_popped(popped, r, i) ==
    IF popped.v = None THEN r
    ELSE [b |-> add_type_expansion(popped.b,
                   <<"return #", ToString(i + 1)>>
                       \o unseen_lines(skip_first_lines(popped.v.v), {})),
          v |-> r.v]

\* lines 533-550, r being the builder and the text after line 532
relabel_type_expansion(type_expansion_count, r, i) ==
    IF Len(r.b.type_expansion) > type_expansion_count
    THEN relabel_popped(
             pop_type_expansion(r.b, type_expansion_count,
                                Len(r.b.type_expansion)),
             r, i)
    ELSE r

build_signature_ret_type(b, ret_info, i) ==
    relabel_type_expansion(Len(b.type_expansion),
        hover_humanize_type(b, ret_info.type_ref, "Simple"), i)

\* build_signature_ret_type of the return docs from index i on, the type
\* texts of the earlier ones being done
RECURSIVE ret_types(_, _, _, _)
RECURSIVE ret_types_after(_, _, _, _)
ret_types(b, rets, i, done) ==
    IF i >= Len(rets) THEN [b |-> b, v |-> done]
    ELSE ret_types_after(build_signature_ret_type(b, rets[i + 1], i),
                         rets, i, done)

ret_types_after(r, rets, i, done) ==
    ret_types(r.b, rets, i + 1, Append(done, r.v))

\* LuaSignature::get_return_type
get_return_type(signature) ==
    IF Len(signature.return_docs) = 0 THEN NilType
    ELSE IF Len(signature.return_docs) = 1
         THEN signature.return_docs[1].type_ref
    ELSE [k |-> "MultiReturn"]

\* one enumerated line of the full-hover return list
ret_line(ret, i, type_text) ==
    <<"  ", IF i = 0 THEN "-> " ELSE ToString(i + 1) \o ". ">>
        \o (IF ret.name # None THEN <<ret.name.v, ": ">> ELSE <<>>)
        \o type_text
        \o <<"\n">>

RECURSIVE ret_lines(_, _, _)
ret_lines(rets, types, i) ==
    IF i >= Len(rets) THEN <<>>
    ELSE ret_line(rets[i + 1], i, types[i + 1])
            \o ret_lines(rets, types, i + 1)

\* the return of an overload, fixed to a single line
overload_rets_string(overload) ==
    IF overload # None /\ overload.v.ret.k # "Nil"
    THEN <<" -> ", humanize_type(overload.v.ret, "Simple")>>
    ELSE <<>>

\* lines 475-482: the returns of a completion on one line
rets_single_line(types) ==
    [b |-> types.b, v |-> <<" -> ">> \o Join(types.v, <<", ">>)]

\* lines 496-519: the returns of the full hover, one line each
rets_multiline(rets, types) ==
    [b |-> types.b, v |-> <<"\n">> \o ret_lines(rets, types.v, 0)]

\* the full hover renders the returns on one line as the completion does
build_signature_rets_inline(b, signature, is_completion, overload) ==
    IF overload_rets_string(overload) # <<>>
    THEN [b |-> b, v |-> overload_rets_string(overload)]
    ELSE IF Len(signature.return_docs) = 0
            \/ get_return_type(signature).k = "Nil"
    THEN [b |-> b, v |-> <<>>]
    ELSE rets_single_line(ret_types(b, signature.return_docs, 0, <<>>))

build_signature_rets(b, signature, is_completion, overload) ==
    IF overload_rets_string(overload) # <<>>
    THEN [b |-> b, v |-> overload_rets_string(overload)]
    ELSE IF Len(signature.return_docs) = 0
            \/ get_return_type(signature).k = "Nil"
    THEN [b |-> b, v |-> <<>>]
    ELSE IF is_completion
    THEN rets_single_line(ret_types(b, signature.return_docs, 0, <<>>))
    ELSE rets_multiline(signature.return_docs,
                        ret_types(b, signature.return_docs, 0, <<>>))

\* of the labels in use only "function " starts with "function"
format_function_type(type_label, async_label, full_name, params_text, rets) ==
    (IF type_label = "function "
     THEN async_label \o <<type_label>>
     ELSE <<type_label>> \o async_label)
        \o <<full_name, "(">> \o params_text \o <<")">> \o rets

\* the parameters of a function as text, the receiver of a method left out
params_text(ps, skip_first) ==
    Join(SelectSeq(
            [i \in 1..Len(ps) |->
                IF i = 1 /\ skip_first THEN <<>>
                ELSE IF ps[i][2] # None
                THEN <<ps[i][1], ": ", humanize_type(ps[i][2], "Simple")>>
                ELSE <<ps[i][1]>>],
            LAMBDA t : t # <<>>),
         <<", ">>)

async_text(is_async) == IF is_async THEN <<"async ">> ELSE <<>>

\* a candidate that is no member of a type: the name of the declaration
hover_doc_function_type(b, lua_func, func_name) ==
    format_function_type("function ", async_text(lua_func.is_async),
        func_name, params_text(lua_func.params, lua_func.is_colon_define),
        IF lua_func.ret.k = "Nil" THEN <<>>
        ELSE <<" -> ", humanize_type(lua_func.ret, "Simple")>>)

\* LuaFunctionType::is_method against the self type
is_method(lua_func) == lua_func.is_colon_define

\* the result of hover_signature_type with the builder it leaves
signature_result(b, type_description, overloads, call_function) ==
    [b |-> b,
     v |-> Some([type_description |-> type_description,
                 overloads |-> overloads,
                 call_function |-> call_function])]

\* the overloads from index i on: the rendering of each, or the one equal
\* to the call function; signature_info is the signature's own rendering
RECURSIVE render_overloads(_, _, _, _, _, _, _)
RECURSIVE render_overload(_, _, _, _, _, _, _, _)
render_overloads(b, signature, type_label, full_name, signature_info, i, done) ==
    IF i >= Len(signature.overloads)
    THEN signature_result(b, signature_info, Some(done), None)
    ELSE render_overload(
             build_signature_rets(b, signature, b.is_completion,
                                  Some(signature.overloads[i + 1])),
             signature.overloads[i + 1],
             signature, type_label, full_name, signature_info, i, done)

\* lines 398-434 for one overload, rets being its returns as text
render_overload(rets, overload, signature, type_label, full_name, signature_info, i, done) ==
    IF rets.b.call_function # None /\ rets.b.call_function.v = overload
    THEN signature_result(rets.b,
             format_function_type(type_label,
                 async_text(overload.is_async), full_name,
                 params_text(overload.params,
                     /\ Len(overload.params) >= 1
                     /\ overload.params[1][2] # None
                     /\ is_method(overload)),
                 rets.v),
             None, rets.b.call_function)
    ELSE render_overloads(rets.b, signature, type_label, full_name,
             signature_info, i + 1,
             Append(done,
                 format_function_type(type_label,
                     async_text(overload.is_async), full_name,
                     params_text(overload.params,
                         /\ Len(overload.params) >= 1
                         /\ overload.params[1][2] # None
                         /\ is_method(overload)),
                     rets.v)))

\* lines 380-443, signature_info being the signature's own rendering
signature_or_overloads(b, sg, type_label, full_name, signature_info) ==
    IF b.call_function # None /\ b.call_function.v.params = sg.params
    THEN signature_result(b, signature_info, None, b.call_function)
    ELSE render_overloads(b, sg, type_label, full_name, signature_info,
                          0, <<>>)

\* lines 356-380, rets being the returns of the signature as text
signature_info_of(rets, sg, type_label, full_name) ==
    signature_or_overloads(rets.b, sg, type_label, full_name,
        format_function_type(type_label, async_text(sg.is_async),
            full_name, params_text(sg.params, FALSE), rets.v))

\* a candidate that is no member of a type is named by the declaration
hover_signature_type(b, signature, func_name, is_local) ==
    IF signature = None THEN [b |-> b, v |-> None]
    ELSE signature_info_of(
             build_signature_rets(b, signature.v, b.is_completion, None),
             signature.v,
             IF is_local THEN "local function " ELSE "function ",
             func_name)

\* The declarations that can resolve the hovered symbol f, with the type
\* inferred for each and the description attached to it.
FunctionType(ps, ret) ==
    [params |-> ps, ret |-> ret, is_colon_define |-> FALSE,
     is_async |-> FALSE]

FuncA == FunctionType(<< <<"a", None>> >>, NilType)
FuncAB == FunctionType(<< <<"a", None>>, <<"b", StringType>> >>, StringType)
FuncABRef == FunctionType(<< <<"a", None>>, <<"b", StringType>> >>, Ref("A"))
FuncC == FunctionType(<< <<"c", None>> >>, NilType)

\* LuaSignatureIndex::get
get_signature(id) ==
    CASE id = "sig_c" ->
            Some([params |-> << <<"c", None>> >>,
                  return_docs |-> <<>>,
                  overloads |-> <<FuncA, FuncABRef>>,
                  is_colon_define |-> FALSE, is_async |-> FALSE])
      [] id = "sig_color" ->
            Some([params |-> <<>>,
                  return_docs |->
                      << [name |-> Some("tint"), type_ref |-> Ref("Color")],
                         [name |-> None, type_ref |-> StringType] >>,
                  overloads |-> <<>>,
                  is_colon_define |-> FALSE, is_async |-> FALSE])
      [] OTHER -> None

HoverDeclIds ==
    {"d_fun", "d_doc_a", "d_doc_a2", "d_doc_ab", "d_sig_c", "d_sig_color",
     "d_union", "d_nil"}

\* the inferred type of a declaration
decl_type(id) ==
    CASE id = "d_fun" -> [k |-> "Function"]
      [] id \in {"d_doc_a", "d_doc_a2"} -> [k |-> "DocFunction", f |-> FuncA]
      [] id = "d_doc_ab" -> [k |-> "DocFunction", f |-> FuncAB]
      [] id = "d_sig_c" -> [k |-> "Signature", id |-> "sig_c"]
      [] id = "d_sig_color" -> [k |-> "Signature", id |-> "sig_color"]
      [] id = "d_union" -> [k |-> "Union"]
      [] OTHER -> NilType

\* extract_description_from_property_owner
extract_description(id) ==
    IF id \in {"d_doc_a", "d_sig_c", "d_fun"}
    THEN Some("about " \o id) ELSE None

\* LuaDecl::get_name and LuaDecl::is_local of the first candidate
decl_name(id) == "f"
decl_is_local(id) == id = "d_sig_color"

\* the entry of type_descs made for one candidate
HoverFunctionInfo(type_description, overloads, description, is_call) ==
    [type_description |-> type_description, overloads |-> overloads,
     description |-> description, is_call_function |-> is_call]

\* lines 116-135, sr being what hover_signature_type returned
signature_function_info(sr, name, description) ==
    IF sr.v = None
    THEN [b |-> sr.b,
          v |-> HoverFunctionInfo(<<"function ", name>>, None, description,
                                  FALSE)]
    ELSE [b |-> sr.b,
          v |-> HoverFunctionInfo(sr.v.v.type_description,
                                  sr.v.v.overloads, description,
                                  sr.v.v.call_function # None)]

\* lines 72-143 for a candidate that is not of a Union type
function_info_of(b, typ, name, is_local, description) ==
    CASE typ.k = "Function" ->
            [b |-> b,
             v |-> HoverFunctionInfo(<<"function ", name, "()">>, None,
                                     description, FALSE)]
      [] typ.k = "DocFunction" ->
            [b |-> b,
             v |-> HoverFunctionInfo(
                       hover_doc_function_type(b, typ.f, name), None,
                       description,
                       /\ b.call_function # None
                       /\ b.call_function.v.params = typ.f.params)]
      [] typ.k = "Signature" ->
            signature_function_info(
                hover_signature_type(b, get_signature(typ.id), name,
                                     is_local),
                name, description)
      [] OTHER ->
            [b |-> b,
             v |-> HoverFunctionInfo(<<"function ", name>>, None,
                                     description, FALSE)]

\* the loop over the candidates from index i on
RECURSIVE collect_type_descs(_, _, _, _, _)
RECURSIVE collect_after(_, _, _, _, _)
collect_type_descs(b, semantic_decls, i, handled, type_descs) ==
    IF i > Len(semantic_decls) THEN [b |-> b, v |-> type_descs]
    ELSE IF decl_type(semantic_decls[i]).k = "Union"
    THEN collect_type_descs(b, semantic_decls, i + 1,
                            handled \cup {semantic_decls[i]}, type_descs)
    ELSE collect_after(
             function_info_of(b, decl_type(semantic_decls[i]),
                 decl_name(semantic_decls[1]),
                 decl_is_local(semantic_decls[1]),
                 IF semantic_decls[i] \notin handled
                 THEN extract_description(semantic_decls[i]) ELSE None),
             semantic_decls, i, handled, type_descs)

\* lines 144-150, info being the entry of the candidate at index i
collect_after(info, semantic_decls, i, handled, type_descs) ==
    IF info.v.is_call_function
    THEN [b |-> info.b, v |-> <<info.v>>]
    ELSE collect_type_descs(info.b, semantic_decls, i + 1,
                            handled \cup {semantic_decls[i]},
                            Append(type_descs, info.v))

\* Vec::dedup_by_key on the type description: of every run of consecutive
\* equal renderings the first is kept
RECURSIVE dedup_by_key(_, _)
dedup_by_key(type_descs, kept) ==
    IF Len(type_descs) = 0 THEN kept
    ELSE IF Len(kept) >= 1
            /\ kept[Len(kept)].type_description
                  = type_descs[1].type_description
    THEN dedup_by_key(Tail(type_descs), kept)
    ELSE dedup_by_key(Tail(type_descs), Append(kept, type_descs[1]))

RECURSIVE add_all_overloads(_, _)
add_all_overloads(b, overloads) ==
    IF Len(overloads) = 0 THEN b
    ELSE add_all_overloads(add_signature_overload(b, overloads[1]),
                           Tail(overloads))

\* the candidates that are not the primary one, in order
RECURSIVE add_other_candidates(_, _)
add_other_candidates(b, type_descs) ==
    IF Len(type_descs) = 0 THEN b
    ELSE add_other_candidates(
             add_description_from_info(
                 IF type_descs[1].overloads # None
                 THEN add_all_overloads(
                          add_signature_overload(b,
                              type_descs[1].type_description),
                          type_descs[1].overloads.v)
                 ELSE add_signature_overload(b,
                          type_descs[1].type_description),
                 type_descs[1].description),
             Tail(type_descs))

\* lines 157-159 and 173-174, 179-180: the candidate shown as primary
set_primary(b, info) ==
    add_description_from_info(
        set_type_description(b, info.type_description), info.description)

\* the first remaining candidate is made the primary one
show_type_descs_first_primary(b, type_descs) ==
    IF Len(type_descs) = 0 THEN [b |-> b, ret |-> None]
    ELSE [b |-> add_other_candidates(set_primary(b, type_descs[1]),
                                     Tail(type_descs)),
          ret |-> Some("unit")]

\* lines 168-194: the last remaining candidate is the primary one
show_type_descs(b, type_descs) ==
    IF Len(type_descs) = 0 THEN [b |-> b, ret |-> None]
    ELSE IF Len(type_descs) = 1
    THEN [b |-> set_primary(b, type_descs[1]), ret |-> Some("unit")]
    ELSE [b |-> add_other_candidates(
                   set_primary(b, type_descs[Len(type_descs)]),
                   SubSeq(type_descs, 1, Len(type_descs) - 1)),
          ret |-> Some("unit")]

\* lines 153-194, c being the builder and type_descs after the loop
show_collected(c) ==
    IF Len(c.v) >= 1 /\ c.v[1].is_call_function
    THEN [b |-> set_primary([c.b EXCEPT !.signature_overload = None],
                            c.v[1]),
          ret |-> Some("unit")]
    ELSE show_type_descs(c.b, dedup_by_key(c.v, <<>>))

hover_function_type(b, semantic_decls) ==
    IF Len(semantic_decls) = 0 THEN [b |-> b, ret |-> None]
    ELSE show_collected(collect_type_descs(b, semantic_decls, 1, {}, <<>>))

\* the inputs of the hover requests
CallFunctions == {None, Some(FuncA), Some(FuncAB), Some(FuncC)}

MultiLineUnions ==
    { MultiLineUnion([i \in 1..n |->
          [ty |-> StringConst(ToString(i)),
           description |-> IF i \in described
                           THEN Some("branch " \o ToString(i)) ELSE None]]) :
        n \in 0..MaxBranches, described \in {{}, {1}, {2, 3}} }

RetInfos ==
    { [name |-> n, type_ref |-> t] :
        n \in {None, Some("x")},
        t \in {NilType, StringType, Ref("Color"), ColorUnion} }

HoverSignatures ==
    { [params |-> <<>>, return_docs |-> rd, overloads |-> <<>>,
       is_colon_define |-> FALSE, is_async |-> FALSE] :
        rd \in SeqUpTo(RetInfos, MaxReturnDocs) }

\* a multi-line union with two branches that render alike
TwinUnion ==
    MultiLineUnion(<< [ty |-> StringConst("on"), description |-> None],
                      [ty |-> StringConst("off"), description |-> None],
                      [ty |-> StringConst("auto"), description |-> Some("cold")] >>)

\* the return types of build_signature_ret_type: with no expansion, with
\* one, and unions of types with an expansion each
ExpandingTypes ==
    {StringType, Ref("Color"), ColorUnion, TwinUnion,
     Union(<<Ref("Color"), StringType, ColorUnion>>),
     Union(<<TwinUnion, Ref("Color")>>),
     Union(<<StringType, NilType>>)}

\* the expansion blocks a builder holds before a return is rendered
EarlierExpansions ==
    {<<>>, << <<"Other", ":", "\n", "    | ", "string", "\n">> >>,
     << <<"return #", "1", "\n", "    | ", "string">>,
        <<"Other", ":", "\n", "    | ", "string", "\n">> >>}

----------------------------------------------------------------------------
(* The hover requests: one call of a rendering function on a new builder, *)
(* then the builder is handed back.                                        *)

HoverFunctionType ==
    /\ pc = "next"
    /\ \E semantic_decls \in SeqUpTo(HoverDeclIds, MaxCandidates),
          call_function \in CallFunctions, is_completion \in BOOLEAN :
          LET r == hover_function_type(
                       NewBuilder(is_completion, call_function),
                       semantic_decls) IN
          hover' = [op |-> "hover_function_type",
                    semantic_decls |-> semantic_decls,
                    builder |-> r.b, ret |-> r.ret]
    /\ pc' = "visited"
    /\ UNCHANGED <<pass, origin, cli, cancelled, code_action>>

BuildSignatureRets ==
    /\ pc = "next"
    /\ \E signature \in HoverSignatures, is_completion \in BOOLEAN,
          overload \in {None, Some(FuncA), Some(FuncAB)} :
          LET r == build_signature_rets(NewBuilder(is_completion, None),
                                        signature, is_completion, overload) IN
          hover' = [op |-> "build_signature_rets",
                    signature |-> signature, overload |-> overload,
                    builder |-> r.b, ret |-> r.v]
    /\ pc' = "visited"
    /\ UNCHANGED <<pass, origin, cli, cancelled, code_action>>

HoverHumanizeType ==
    /\ pc = "next"
    /\ \E multi_union \in MultiLineUnions, ty_name \in {None, Some("Shade")},
          before \in {<<>>, << <<"Other:", "\n">> >>} :
          LET b == [NewBuilder(FALSE, None) EXCEPT !.type_expansion = before]
              r == IF ty_name = None
                   THEN hover_humanize_type(b, multi_union, "Simple")
                   ELSE unwrap_or_default(
                            hover_multi_line_union_type(b, multi_union,
                                                        Some(<<ty_name.v>>)))
          IN
          hover' = [op |-> "hover_multi_line_union_type",
                    multi_union |-> multi_union, ty_name |-> ty_name,
                    before |-> before,
                    builder |-> r.b, ret |-> r.v]
    /\ pc' = "visited"
    /\ UNCHANGED <<pass, origin, cli, cancelled, code_action>>

BuildSignatureRetType ==
    /\ pc = "next"
    /\ \E type_ref \in ExpandingTypes, i \in 0..(MaxReturnDocs - 1),
          before \in EarlierExpansions :
          LET b == [NewBuilder(FALSE, None) EXCEPT !.type_expansion = before]
              ret_info == [name |-> None, type_ref |-> type_ref]
              r == build_signature_ret_type(b, ret_info, i)
          IN
          hover' = [op |-> "build_signature_ret_type",
                    ret_info |-> ret_info, i |-> i, before |-> before,
                    builder |-> r.b, ret |-> r.v]
    /\ pc' = "visited"
    /\ UNCHANGED <<pass, origin, cli, cancelled, code_action>>

\* the request is answered
HoverDone ==
    /\ pc = "visited"
    /\ pc' = "next"
    /\ hover' = NoHover
    /\ UNCHANGED <<pass, origin, cli, cancelled, code_action>>

NextHover ==
    \/ HoverFunctionType
    \/ BuildSignatureRets
    \/ HoverHumanizeType
    \/ BuildSignatureRetType
    \/ HoverDone

SpecHover == Init /\ [][NextHover]_vars

----------------------------------------------------------------------------
(* Properties of hover_function_type *)

HoveredFunction == pc = "visited" /\ hover.op = "hover_function_type"

\* the renderings of the candidate at index i, made for a request without
\* a call function: of the candidate itself and of its signature overloads
Unmatched(i) ==
    collect_type_descs(
        NewBuilder(hover.builder.is_completion, None),
        <<hover.semantic_decls[1], hover.semantic_decls[i]>>,
        2, {hover.semantic_decls[j] : j \in 1..(i - 1)}, <<>>).v

\* the alternatives a call function can be compared with: j = 0 is the
\* candidate itself, j >= 1 the j-th overload of its signature
Alternatives ==
    UNION { LET typ == decl_type(hover.semantic_decls[i]) IN
            CASE typ.k = "DocFunction" ->
                    {[i |-> i, j |-> 0, params |-> typ.f.params,
                      rendering |-> Unmatched(i)[1].type_description]}
              [] typ.k = "Signature" /\ get_signature(typ.id) # None ->
                    {[i |-> i, j |-> 0,
                      params |-> get_signature(typ.id).v.params,
                      rendering |-> Unmatched(i)[1].type_description]}
                    \cup
                    {[i |-> i, j |-> j,
                      params |-> get_signature(typ.id).v.overloads[j].params,
                      rendering |-> Unmatched(i)[1].overloads.v[j]] :
                        j \in 1..Len(get_signature(typ.id).v.overloads)}
              [] OTHER -> {}
          : i \in 1..Len(hover.semantic_decls) }

\* the alternatives whose parameter list equals the call function's
Matching ==
    IF hover.builder.call_function = None THEN {}
    ELSE {a \in Alternatives :
            a.params = hover.builder.call_function.v.params}

\* C13: when the call function is known and exactly one rendered
\* alternative of the candidates (a DocFunction, a signature's own
\* parameter list, or one overload of a signature) has its parameter list,
\* the type description is that alternative's rendering and the
\* signature-overload list is None, wherever the candidate stands.
C13_ExactMatchCollapses ==
    (HoveredFunction /\ Cardinality(Matching) = 1) =>
        \A a \in Matching :
            /\ hover.ret # None
            /\ hover.builder.type_description = a.rendering
            /\ hover.builder.signature_overload = None

\* the overload list as a sequence
OverloadEntries ==
    IF hover.builder.signature_overload = None THEN <<>>
    ELSE hover.builder.signature_overload.v

\* no candidate is a signature with overloads of its own
NoSignatureOverloads ==
    \A i \in 1..Len(hover.semantic_decls) :
        LET typ == decl_type(hover.semantic_decls[i]) IN
        (typ.k = "Signature" /\ get_signature(typ.id) # None) =>
            Len(get_signature(typ.id).v.overloads) = 0

\* C14: when no alternative matches the call function, the primary type
\* description and the entries of the overload list are pairwise different
\* strings (stated for candidates without signature overloads, so that
\* every entry is the rendering of a candidate).
C14_NoDuplicateRendering ==
    (HoveredFunction /\ Matching = {} /\ NoSignatureOverloads
        /\ hover.ret # None) =>
        LET shown == <<hover.builder.type_description>> \o OverloadEntries IN
        \A m, n \in 1..Len(shown) : m # n => shown[m] # shown[n]

\* the candidates that are rendered: every one but those of a Union type
Rendered ==
    {i \in 1..Len(hover.semantic_decls) :
        decl_type(hover.semantic_decls[i]).k # "Union"}

\* the rendered candidate before i, or 0
PrevRendered(i) ==
    IF \E j \in Rendered : j < i
    THEN CHOOSE j \in Rendered : j < i /\ \A m \in Rendered : m < i => m <= j
    ELSE 0

\* the candidates that remain: a candidate rendered as the one before it
\* is dropped
Remaining ==
    {i \in Rendered :
        PrevRendered(i) = 0
        \/ Unmatched(i)[1].type_description
              # Unmatched(PrevRendered(i))[1].type_description}

\* the entries the candidates of a set give, in candidate order: the
\* rendering of each followed by the overloads of its signature
RECURSIVE EntriesOf(_)
EntriesOf(cands) ==
    IF cands = {} THEN <<>>
    ELSE LET i == CHOOSE m \in cands : \A n \in cands : m <= n
             info == Unmatched(i)[1]
         IN <<info.type_description>>
                \o (IF info.overloads = None THEN <<>> ELSE info.overloads.v)
                \o EntriesOf(cands \ {i})

\* the descriptions of the candidates of a set, in candidate order; a
\* declaration seen earlier in the list has none of its own
RECURSIVE DescriptionsOf(_)
DescriptionsOf(cands) ==
    IF cands = {} THEN <<>>
    ELSE LET i == CHOOSE m \in cands : \A n \in cands : m <= n
             info == Unmatched(i)[1]
         IN (IF info.description = None THEN <<>>
             ELSE <<info.description.v>>)
                \o DescriptionsOf(cands \ {i})

LastRemaining == CHOOSE i \in Remaining : \A n \in Remaining : n <= i

\* C15: when no alternative matches the call function: with two or more
\* remaining candidates the type description is the rendering of the last
\* one and the overload list holds the others in candidate order, each
\* followed by the overloads of its signature, the descriptions being
\* those of the last and then of the others; with one remaining candidate
\* it is the type description and the overload list is None; with none the
\* function returns None.
C15_LastIsPrimary ==
    (HoveredFunction /\ Matching = {}) =>
        /\ Remaining = {} => hover.ret = None
        /\ Cardinality(Remaining) = 1 =>
              /\ hover.ret # None
              /\ hover.builder.type_description
                    = Unmatched(LastRemaining)[1].type_description
              /\ hover.builder.signature_overload = None
        /\ Cardinality(Remaining) >= 2 =>
              /\ hover.ret # None
              /\ hover.builder.type_description
                    = Unmatched(LastRemaining)[1].type_description
              /\ hover.builder.signature_overload
                    = Some(EntriesOf(Remaining \ {LastRemaining}))
              /\ hover.builder.descriptions
                    = DescriptionsOf({LastRemaining})
                        \o DescriptionsOf(Remaining \ {LastRemaining})

\* a signature with two overloads listed before the primary candidate
C15_Witness ==
    /\ HoveredFunction
    /\ Matching = {}
    /\ hover.semantic_decls = <<"d_sig_c", "d_doc_ab">>
    /\ hover.builder.type_description
          = <<"function ", "f", "(", "a", ", ", "b", ": ", "string", ")",
              " -> ", "string">>
    /\ hover.builder.signature_overload # None
    /\ Len(hover.builder.signature_overload.v) = 3
    /\ hover.builder.descriptions = <<"about d_sig_c">>

----------------------------------------------------------------------------
(* Properties of build_signature_rets and hover_multi_line_union_type *)

BuiltRets == pc = "visited" /\ hover.op = "build_signature_rets"

ReturnDocs == hover.signature.return_docs

\* the number of occurrences of a piece in a text
Count(text, piece) == Cardinality({n \in 1..Len(text) : text[n] = piece})

\* the type text of the k-th return doc
ReturnTypeText(k) ==
    hover_humanize_type(NewBuilder(FALSE, None), ReturnDocs[k].type_ref,
                        "Simple").v

\* the return type of the signature is nil
ReturnsNil ==
    Len(ReturnDocs) = 0
    \/ (Len(ReturnDocs) = 1 /\ ReturnDocs[1].type_ref = NilType)

\* the line of the k-th return doc in the full hover, after the indent
EnumeratedLine(k) ==
    <<IF k = 1 THEN "-> " ELSE ToString(k) \o ". ">>
        \o (IF ReturnDocs[k].name # None
            THEN <<ReturnDocs[k].name.v, ": ">> ELSE <<>>)
        \o ReturnTypeText(k)

\* C16: build_signature_rets without an overload gives the empty text when
\* there is no return doc or the return type is nil; otherwise, for a
\* completion, the single line " -> T1, T2, ..." and, for the full hover,
\* a line break followed by one line per return doc, the first with the
\* prefix "-> ", the k-th with "k. ", the name and ": " before the type of
\* a named return.  With an overload of non-nil return it gives " -> T"
\* in both modes.
C16_ReturnRendering ==
    BuiltRets =>
        /\ (hover.overload = None /\ ReturnsNil) => hover.ret = <<>>
        /\ (hover.overload = None /\ ~ReturnsNil
                /\ hover.builder.is_completion) =>
              /\ hover.ret = <<" -> ">>
                    \o Join([k \in 1..Len(ReturnDocs) |-> ReturnTypeText(k)],
                            <<", ">>)
              /\ Count(hover.ret, "\n") = 0
        /\ (hover.overload = None /\ ~ReturnsNil
                /\ ~hover.builder.is_completion) =>
              /\ hover.ret[1] = "\n"
              /\ Count(hover.ret, "\n") = Len(ReturnDocs) + 1
              /\ Len(Lines(hover.ret, <<>>)) = Len(ReturnDocs) + 1
              /\ \A k \in 1..Len(ReturnDocs) :
                    Lines(hover.ret, <<>>)[k + 1]
                        = <<"  ">> \o EnumeratedLine(k)
        /\ (hover.overload # None /\ hover.overload.v.ret # NilType) =>
              hover.ret = <<" -> ",
                            humanize_type(hover.overload.v.ret, "Simple")>>

\* two returns in the full hover, the first named and of an alias type
C16_Witness ==
    /\ BuiltRets
    /\ hover.overload = None
    /\ ~hover.builder.is_completion
    /\ hover.ret = <<"\n", "  ", "-> ", "x", ": ", "Color", "\n",
                     "  ", "2. ", "string", "\n">>

UnionRendered == pc = "visited" /\ hover.op = "hover_multi_line_union_type"

Branches == hover.multi_union.unions

\* the name of an unnamed union: at most SummaryBranches branches
SummaryName ==
    <<"(">>
      \o Join([k \in 1..Min(10, Len(Branches)) |->
                 <<humanize_type(Branches[k].ty, "Simple")>>], <<"|">>)
      \o <<")">>

\* C17: hover_multi_line_union_type appends exactly one block to the type
\* expansions and returns the header name only; the name is the given
\* alias name, or "(" + the first ten branches at most joined by "|" +
\* ")"; the block is the header line followed by one line for every
\* branch, in order, with " -- description" only for a described branch.
C17_MultiLineUnionBlock ==
    UnionRendered =>
        LET name == IF hover.ty_name # None THEN <<hover.ty_name.v>>
                    ELSE SummaryName
            blocks == hover.builder.type_expansion
            lines == Lines(blocks[Len(blocks)], <<>>)
        IN /\ hover.ret = name
           /\ Len(blocks) = Len(hover.before) + 1
           /\ SubSeq(blocks, 1, Len(hover.before)) = hover.before
           /\ Len(lines) = Len(Branches) + 1
           /\ lines[1] = name \o <<":">>
           /\ \A k \in 1..Len(Branches) :
                 lines[k + 1] =
                    <<"    | ", humanize_type(Branches[k].ty, "Minimal")>>
                      \o (IF Branches[k].description # None
                          THEN <<" -- ", Branches[k].description.v>>
                          ELSE <<>>)

\* an unnamed union of eleven branches: ten in the name, eleven lines
C17_Witness ==
    /\ UnionRendered
    /\ hover.ty_name = None
    /\ Len(Branches) = 11
    /\ Branches[2].description # None
    /\ Len(hover.ret) = 21
    /\ Len(Lines(hover.builder.type_expansion[
                    Len(hover.builder.type_expansion)], <<>>)) = 12

----------------------------------------------------------------------------
(* enum_variable_is_param (semantic/decl/mod.rs).  A declaration has no    *)
(* value expression (a parameter or a plain declaration), or a value       *)
(* expression whose semantic declaration is a member, nothing, or another  *)
(* declaration.  The recursion of find_enum_origin is a stack of frames,   *)
(* one step per call and per return.                                       *)

\* the number of declarations of a file
MaxDecls == 3
\* the frames the thread's stack has room for
MaxStack == 5

DeclIds == 1..MaxDecls

DeclInfos ==
    {[kind |-> "param"], [kind |-> "novalue"], [kind |-> "member"],
     [kind |-> "unresolved"]}
        \cup {[kind |-> "decl", to |-> d] : d \in DeclIds}

\* LuaDecl::get_value_syntax_id().is_some()
has_value(info) == info.kind \in {"member", "unresolved", "decl"}

\* LuaDecl::is_param
is_param(info) == info.kind = "param"

\* lines 52-71: the prefix is of an enum type and is a declaration
EnumVariableIsParam ==
    /\ origin.status = "idle"
    /\ \E decls \in [DeclIds -> DeclInfos], decl_id \in DeclIds,
          prefix \in {"enum", "not_ref", "not_enum", "member"} :
          origin' =
            IF prefix = "enum"
            THEN [status |-> "call", decls |-> decls, decl_id |-> decl_id,
                  prefix |-> prefix,
                  stack |-> <<decl_id>>, calls |-> <<decl_id>>,
                  ret |-> None, result |-> None]
            ELSE [status |-> "done", decls |-> decls, decl_id |-> decl_id,
                  prefix |-> prefix,
                  stack |-> <<>>, calls |-> <<>>,
                  ret |-> None, result |-> None]
    /\ UNCHANGED <<pc, pass, hover, cli, cancelled, code_action>>

\* lines 20-49 of the frame on top: a recursive call at line 43, or the
\* value the frame returns without a call
FindEnumOriginCall ==
    /\ origin.status = "call"
    /\ LET decl_id == origin.stack[Len(origin.stack)]
           info == origin.decls[decl_id]
       IN IF info.kind = "decl" /\ has_value(origin.decls[info.to])
          THEN IF Len(origin.stack) < MaxStack
               THEN origin' = [origin EXCEPT
                                 !.stack = Append(@, info.to),
                                 !.calls = Append(@, info.to)]
               ELSE origin' = [origin EXCEPT !.status = "stack overflow"]
          ELSE origin' = [origin EXCEPT
                            !.status = "return",
                            !.stack = SubSeq(@, 1, Len(@) - 1),
                            !.ret = IF info.kind = "decl"
                                    THEN Some(info.to) ELSE None]
    /\ UNCHANGED <<pc, pass, hover, cli, cancelled, code_action>>

\* line 43 of the calling frame: Some(returned.unwrap_or(new_decl_id))
FindEnumOriginReturn ==
    /\ origin.status = "return"
    /\ Len(origin.stack) >= 1
    /\ LET decl_id == origin.stack[Len(origin.stack)]
           new_decl_id == origin.decls[decl_id].to
       IN origin' = [origin EXCEPT
                        !.stack = SubSeq(@, 1, Len(@) - 1),
                        !.ret = IF @ = None THEN Some(new_decl_id) ELSE @]
    /\ UNCHANGED <<pc, pass, hover, cli, cancelled, code_action>>

\* lines 73-80: the origin, or the declaration itself, is a parameter
EnumVariableIsParamReturn ==
    /\ origin.status = "return"
    /\ Len(origin.stack) = 0
    /\ LET origin_decl_id ==
              IF origin.ret = None THEN origin.decl_id ELSE origin.ret.v
       IN origin' = [origin EXCEPT
                        !.status = "done",
                        !.result = IF is_param(origin.decls[origin_decl_id])
                                   THEN Some("unit") ELSE None]
    /\ UNCHANGED <<pc, pass, hover, cli, cancelled, code_action>>

\* the caller goes on to its next query
EnumQueryDone ==
    /\ origin.status = "done"
    /\ origin' = NoQuery
    /\ UNCHANGED <<pc, pass, hover, cli, cancelled, code_action>>

NextEnum ==
    \/ EnumVariableIsParam
    \/ FindEnumOriginCall
    \/ FindEnumOriginReturn
    \/ EnumVariableIsParamReturn
    \/ EnumQueryDone

SpecEnum == Init /\ [][NextEnum]_vars

\* C18: find_enum_origin is called on every declaration at most once in
\* one query, whatever the declaration graph, a declaration whose value
\* resolves back to itself included, and the query does not run out of
\* stack.
C18_EachDeclarationVisitedOnce ==
    origin.status # "idle" =>
        /\ \A m, n \in 1..Len(origin.calls) :
              m # n => origin.calls[m] # origin.calls[n]
        /\ origin.status # "stack overflow"

----------------------------------------------------------------------------
(* The command-line check (emmylua_check/src/main.rs): the files of the    *)
(* workspace are selected, one task is spawned for each, every task sends  *)
(* its result on the channel and output_result collects them.  A path is   *)
(* the sequence of its components.                                         *)

\* the number of files the database holds
MaxFiles == 3

\* tokio::sync::mpsc::channel(100)
ChannelCapacity == 100

FileIds == 1..MaxFiles

Workspace == <<"ws">>

Paths == {<<"ws", "a.lua">>, <<"wsx", "b.lua">>, <<"lib", "c.lua">>}

\* the comparison of the first characters instead of the components: "wsx"
\* begins with "ws"
starts_with_text(path, base) ==
    /\ Len(base) <= Len(path)
    /\ \A n \in 1..Len(base) :
          path[n] = base[n] \/ path[n] = base[n] \o "x"

\* Path::starts_with: whole components are compared
starts_with(path, base) ==
    /\ Len(base) <= Len(path)
    /\ SubSeq(path, 1, Len(base)) = base

\* the loop over the files from index i on
RECURSIVE get_need_check_ids(_, _, _, _)
get_need_check_ids(paths, files, workspace, i) ==
    IF i > Len(files) THEN <<>>
    ELSE (IF starts_with(paths[files[i]], workspace)
          THEN <<files[i]>> ELSE <<>>)
            \o get_need_check_ids(paths, files, workspace, i + 1)

\* Vfs::get_all_file_ids
get_all_file_ids == [i \in 1..MaxFiles |-> i]

\* the result of diagnose_file for a file
diagnose_file(file_id) == Some([of |-> file_id])

\* lines 62-67
CheckStart ==
    /\ cli.status = "idle"
    /\ \E paths \in [FileIds -> Paths] :
          cli' = [status |-> "spawning",
                  paths |-> paths,
                  need_check_files |->
                      get_need_check_ids(paths, get_all_file_ids,
                                         Workspace, 1),
                  tasks |-> <<>>,
                  channel |-> <<>>,
                  sent |-> <<>>,
                  total_count |-> 0,
                  received |-> <<>>]
    /\ UNCHANGED <<pc, pass, hover, origin, cancelled, code_action>>

\* lines 69-77: one iteration of the loop spawns a task
SpawnTask ==
    /\ cli.status = "spawning"
    /\ Len(cli.tasks) < Len(cli.need_check_files)
    /\ cli' = [cli EXCEPT !.tasks = Append(@,
                  [file_id |-> cli.need_check_files[Len(cli.tasks) + 1],
                   state |-> "spawned", diagnostics |-> None])]
    /\ UNCHANGED <<pc, pass, hover, origin, cancelled, code_action>>

\* line 74 of a task, with its own token that nothing cancels
TaskDiagnose ==
    /\ cli.status \in {"spawning", "collecting", "finished"}
    /\ \E t \in 1..Len(cli.tasks) :
          /\ cli.tasks[t].state = "spawned"
          /\ cli' = [cli EXCEPT
                        !.tasks[t].state = "diagnosed",
                        !.tasks[t].diagnostics =
                            diagnose_file(cli.tasks[t].file_id)]
    /\ UNCHANGED <<pc, pass, hover, origin, cancelled, code_action>>

\* line 75 of a task: the send waits while the channel is full
TaskSend ==
    /\ cli.status \in {"spawning", "collecting", "finished"}
    /\ Len(cli.channel) < ChannelCapacity
    /\ \E t \in 1..Len(cli.tasks) :
          /\ cli.tasks[t].state = "diagnosed"
          /\ LET message == [file_id |-> cli.tasks[t].file_id,
                             diagnostics |-> cli.tasks[t].diagnostics]
             IN cli' = [cli EXCEPT
                           !.tasks[t].state = "done",
                           !.channel = Append(@, message),
                           !.sent = Append(@, message)]
    /\ UNCHANGED <<pc, pass, hover, origin, cancelled, code_action>>

\* lines 79-88: the collector is called with the number of results
OutputResult ==
    /\ cli.status = "spawning"
    /\ Len(cli.tasks) = Len(cli.need_check_files)
    /\ cli' = [cli EXCEPT !.status = "collecting",
                          !.total_count = Len(cli.need_check_files)]
    /\ UNCHANGED <<pc, pass, hover, origin, cancelled, code_action>>

\* the collector takes the next result from the channel
Receive ==
    /\ cli.status = "collecting"
    /\ Len(cli.received) < cli.total_count
    /\ Len(cli.channel) >= 1
    /\ cli' = [cli EXCEPT !.channel = Tail(@),
                          !.received = Append(@, cli.channel[1])]
    /\ UNCHANGED <<pc, pass, hover, origin, cancelled, code_action>>

\* lines 90-95: every expected result has been collected
CheckFinished ==
    /\ cli.status = "collecting"
    /\ Len(cli.received) = cli.total_count
    /\ cli' = [cli EXCEPT !.status = "finished"]
    /\ UNCHANGED <<pc, pass, hover, origin, cancelled, code_action>>

NextCli ==
    \/ CheckStart
    \/ SpawnTask
    \/ TaskDiagnose
    \/ TaskSend
    \/ OutputResult
    \/ Receive
    \/ CheckFinished

SpecCli == Init /\ [][NextCli]_vars

\* the files whose path lies under the workspace root
WorkspaceFiles == {f \in FileIds : cli.paths[f][1] = "ws"}

TasksIn(states) == {t \in 1..Len(cli.tasks) : cli.tasks[t].state \in states}

\* C19: a task is spawned only for a file under the workspace root and at
\* most one for each; every message sent carries the file id of the task
\* that sent it and the result of that file, one message per finished
\* task; the collector is told to expect one result per workspace file;
\* and when all tasks have finished, in whatever order, the messages sent
\* are exactly one per workspace file.
C19_OneTaskAndMessagePerFile ==
    cli.status # "idle" =>
        /\ \A t \in 1..Len(cli.tasks) :
              cli.tasks[t].file_id \in WorkspaceFiles
        /\ \A t, u \in 1..Len(cli.tasks) :
              t # u => cli.tasks[t].file_id # cli.tasks[u].file_id
        /\ Len(cli.sent) = Cardinality(TasksIn({"done"}))
        /\ \A m \in 1..Len(cli.sent) :
              /\ \E t \in TasksIn({"done"}) :
                    cli.tasks[t].file_id = cli.sent[m].file_id
              /\ cli.sent[m].diagnostics
                    = Some([of |-> cli.sent[m].file_id])
              /\ \A n \in 1..Len(cli.sent) :
                    m # n => cli.sent[m].file_id # cli.sent[n].file_id
        /\ cli.status \in {"collecting", "finished"} =>
              /\ cli.total_count = Cardinality(WorkspaceFiles)
              /\ Len(cli.tasks) = Cardinality(WorkspaceFiles)
        /\ cli.status = "finished" =>
              /\ {cli.sent[m].file_id : m \in 1..Len(cli.sent)}
                    = WorkspaceFiles
              /\ Len(cli.sent) = Cardinality(WorkspaceFiles)
              /\ Len(cli.received) = Cardinality(WorkspaceFiles)

\* two workspace files and one under a sibling directory; the task of the
\* later file finished first
C19_Witness ==
    /\ cli.status = "finished"
    /\ cli.paths[1] = <<"ws", "a.lua">>
    /\ cli.paths[2] = <<"wsx", "b.lua">>
    /\ cli.paths[3] = <<"ws", "a.lua">>
    /\ Len(cli.sent) = 2
    /\ cli.sent[1].file_id = 3
    /\ cli.sent[2].file_id = 1
    /\ cli.received = cli.sent

----------------------------------------------------------------------------
(* Cancellation of the work on a file while the pass walks its nodes.      *)

\* CancellationToken::cancel by the holder of the file's token
CancelFile ==
    /\ ~cancelled
    /\ cancelled' = TRUE
    /\ UNCHANGED <<pc, pass, hover, origin, cli, code_action>>

\* a new token for the next file
NewToken ==
    /\ cancelled
    /\ pc = "next"
    /\ cancelled' = FALSE
    /\ UNCHANGED <<pc, pass, hover, origin, cli, code_action>>

NextCancel ==
    \/ CheckCallExpr
    \/ CheckDocTagType
    \/ OtherNode
    \/ NextNode
    \/ CancelFile
    \/ NewToken

SpecCancel == Init /\ [][NextCancel]_vars

\* C20: once the cancellation signal of the file is set and the pass is
\* between two nodes, it visits no further call expression or doc tag.
C20_StopsWhenCancelled ==
    [][(cancelled /\ pc = "next") =>
          ~(pc' = "visited" /\ node'.kind \in {"CallExpr", "DocTagType"})]_vars

----------------------------------------------------------------------------
(* Properties of build_signature_ret_type *)

RetTypeBuilt == pc = "visited" /\ hover.op = "build_signature_ret_type"

\* the expansion blocks that rendering the return type adds to the blocks
\* the builder held before
ProducedExpansions ==
    LET r == hover_humanize_type(
                 [NewBuilder(FALSE, None) EXCEPT !.type_expansion = hover.before],
                 hover.ret_info.type_ref, "Simple")
    IN SubSeq(r.b.type_expansion, Len(hover.before) + 1,
              Len(r.b.type_expansion))

\* the lines below the header line of every block, in order
RECURSIVE NonHeaderLines(_)
NonHeaderLines(blocks) ==
    IF Len(blocks) = 0 THEN <<>>
    ELSE LET lines == Lines(blocks[1], <<>>) IN
         SubSeq(lines, 2, Len(lines)) \o NonHeaderLines(Tail(blocks))

\* a sequence without the later occurrences of its elements
FirstOccurrences(lines) ==
    LET keep == {n \in 1..Len(lines) :
                    \A m \in 1..(n - 1) : lines[m] # lines[n]}
    IN [k \in 1..Cardinality(keep) |->
           lines[CHOOSE n \in keep : Cardinality({m \in keep : m <= n}) = k]]

\* C21: build_signature_ret_type for the return at index i leaves at most
\* one expansion block more than before; the blocks produced by rendering
\* the return type are replaced by one block whose first line is
\* "return #" followed by i + 1 and whose further lines are the non-header
\* lines of the produced blocks in order, a repeated line once; the blocks
\* held before the call are unchanged
C21_ExpansionsMergedPerReturn ==
    RetTypeBuilt =>
        LET after == hover.builder.type_expansion
            held == Len(hover.before)
        IN /\ Len(after) <= held + 1
           /\ Len(after) >= held
           /\ SubSeq(after, 1, held) = hover.before
           /\ IF ProducedExpansions = <<>>
              THEN after = hover.before
              ELSE /\ Len(after) = held + 1
                   /\ Lines(after[held + 1], <<>>) =
                        << <<"return #", ToString(hover.i + 1)>> >>
                           \o FirstOccurrences(NonHeaderLines(ProducedExpansions))

\* the second return renders a union whose two members each add a block,
\* lines repeat within and across the blocks, and the builder held blocks
C21_Witness ==
    /\ RetTypeBuilt
    /\ hover.i = 1
    /\ Len(hover.before) = 2
    /\ Len(ProducedExpansions) = 2
    /\ Len(FirstOccurrences(NonHeaderLines(ProducedExpansions)))
          < Len(NonHeaderLines(ProducedExpansions))
    /\ Len(hover.builder.type_expansion) = 3

----------------------------------------------------------------------------
(* The command-line check with more files than the channel has room for.   *)
(* The tasks run the same closure and differ in their file only, so they   *)
(* are counted by their position: spawned, past diagnose_file (line 74),   *)
(* past the send (line 75); the channel is the number of results it holds. *)

\* the files a workspace has beyond the capacity of the channel
MaxOverflow == 2

\* the numbers of workspace files
FileCounts == {0, 1, ChannelCapacity, ChannelCapacity + MaxOverflow}

\* lines 62-67, need_check_files holding n files
MainStart ==
    /\ cli.status = "idle"
    /\ \E n \in FileCounts :
          cli' = [status |-> "spawning", need_check_files |-> n,
                  spawned |-> 0, diagnosed |-> 0, sent |-> 0,
                  channel |-> 0, total_count |-> 0, received |-> 0]
    /\ UNCHANGED <<pc, pass, hover, origin, cancelled, code_action>>

\* lines 69-77: one iteration of the loop; tokio::spawn does not wait
MainSpawn ==
    /\ cli.status = "spawning"
    /\ cli.spawned < cli.need_check_files
    /\ cli' = [cli EXCEPT !.spawned = @ + 1]
    /\ UNCHANGED <<pc, pass, hover, origin, cancelled, code_action>>

\* line 74 of one of the spawned tasks
WorkerDiagnose ==
    /\ cli.status \in {"spawning", "collecting"}
    /\ cli.diagnosed < cli.spawned
    /\ cli' = [cli EXCEPT !.diagnosed = @ + 1]
    /\ UNCHANGED <<pc, pass, hover, origin, cancelled, code_action>>

\* the collector is called only when every task has sent its result
MainOutputResultAfterTasks ==
    /\ cli.status = "spawning"
    /\ cli.spawned = cli.need_check_files
    /\ cli.sent = cli.need_check_files
    /\ cli' = [cli EXCEPT !.status = "collecting",
                          !.total_count = cli.need_check_files]
    /\ UNCHANGED <<pc, pass, hover, origin, cancelled, code_action>>

\* lines 79-88: the loop is over and the collector is called with the
\* number of results to wait for
MainOutputResult ==
    /\ cli.status = "spawning"
    /\ cli.spawned = cli.need_check_files
    /\ cli' = [cli EXCEPT !.status = "collecting",
                          !.total_count = cli.need_check_files]
    /\ UNCHANGED <<pc, pass, hover, origin, cancelled, code_action>>

\* line 75 of a task past diagnose_file: the send completes when the
\* channel has room and waits while it is full
WorkerSend ==
    /\ cli.status \in {"spawning", "collecting"}
    /\ cli.sent < cli.diagnosed
    /\ cli.channel < ChannelCapacity
    /\ cli' = [cli EXCEPT !.sent = @ + 1, !.channel = @ + 1]
    /\ UNCHANGED <<pc, pass, hover, origin, cancelled, code_action>>

\* the collector takes a result from the channel and waits while the
\* channel is empty
CollectorRecv ==
    /\ cli.status = "collecting"
    /\ cli.received < cli.total_count
    /\ cli.channel >= 1
    /\ cli' = [cli EXCEPT !.channel = @ - 1, !.received = @ + 1]
    /\ UNCHANGED <<pc, pass, hover, origin, cancelled, code_action>>

\* lines 90-95: the collector holds total_count results and returns
MainFinished ==
    /\ cli.status = "collecting"
    /\ cli.received = cli.total_count
    /\ cli' = [cli EXCEPT !.status = "finished"]
    /\ UNCHANGED <<pc, pass, hover, origin, cancelled, code_action>>

NextCliTasks ==
    \/ MainStart
    \/ MainSpawn
    \/ WorkerDiagnose
    \/ WorkerSend
    \/ MainOutputResult
    \/ CollectorRecv
    \/ MainFinished

\* the runtime schedules every task that can run, the main task included
FairCliTasks ==
    /\ WF_vars(MainStart)
    /\ WF_vars(MainSpawn)
    /\ WF_vars(WorkerDiagnose)
    /\ WF_vars(WorkerSend)
    /\ WF_vars(MainOutputResult)
    /\ WF_vars(CollectorRecv)
    /\ WF_vars(MainFinished)

SpecCliFair == Init /\ [][NextCliTasks]_vars /\ FairCliTasks

\* every task not yet past its send waits at the send for room
AllTasksBlocked ==
    /\ cli.spawned = cli.need_check_files
    /\ cli.diagnosed = cli.spawned
    /\ cli.sent < cli.diagnosed
    /\ cli.channel = ChannelCapacity

\* the collector has been called and has no result to take or to return
CollectorWaits ==
    /\ cli.status = "collecting"
    /\ cli.received < cli.total_count
    /\ cli.channel = 0

\* the check is under way and no task, the main task included, can step
Stuck ==
    /\ cli.status \in {"spawning", "collecting"}
    /\ ~ENABLED NextCliTasks

\* C22: with the channel of capacity 100 and any number of workspace
\* files, more than 100 included, under fair scheduling every spawned task
\* eventually completes its send and the collector eventually holds every
\* result; in no reachable state are all tasks blocked on the full channel
\* while the collector waits, and the check never stands still unfinished
C22_BoundedChannelProgress ==
    /\ [](cli.status # "idle" => ~(AllTasksBlocked /\ CollectorWaits) /\ ~Stuck)
    /\ [](cli.status = "spawning" =>
            <>(/\ cli.status = "finished"
               /\ cli.sent = cli.need_check_files
               /\ cli.received = cli.need_check_files))

\* more files than the channel holds: the channel is full, the tasks left
\* wait at their send, and the collector has taken no result yet
C22_Witness ==
    /\ cli.status = "collecting"
    /\ cli.need_check_files > ChannelCapacity
    /\ AllTasksBlocked
    /\ cli.received = 0

----------------------------------------------------------------------------
(* Properties of enum_variable_is_param *)

\* the declaration reached from d after k steps, each step going from a
\* declaration to the declaration its value expression resolves to
RECURSIVE ChainElement(_, _)
ChainElement(d, k) ==
    IF k = 0 THEN d ELSE origin.decls[ChainElement(d, k - 1)].to

\* the chain from d has k steps: its first k elements resolve to a
\* declaration and the next one has no value expression, or a value that
\* resolves to a member or to nothing
ChainEndsAfter(d, k) ==
    /\ \A j \in 0..(k - 1) : origin.decls[ChainElement(d, j)].kind = "decl"
    /\ origin.decls[ChainElement(d, k)].kind # "decl"

ChainEnds(d) == \E k \in 0..MaxDecls : ChainEndsAfter(d, k)

\* the last element of the chain from d
OriginOf(d) ==
    ChainElement(d, CHOOSE k \in 0..MaxDecls : ChainEndsAfter(d, k))

\* the prefix is of an enum type, resolves to a declaration, and the origin
\* of that declaration is a parameter
OriginIsParam ==
    /\ origin.prefix = "enum"
    /\ ChainEnds(origin.decl_id)
    /\ is_param(origin.decls[OriginOf(origin.decl_id)])

\* C23: enum_variable_is_param returns Some(()) if and only if the prefix
\* type is a Ref to an enum type declaration, the prefix resolves to a
\* declaration d0, and the origin, the last element of the chain from d0,
\* is a parameter; in every other case it returns None.
C23_SomeIffOriginIsParam ==
    origin.status \in {"done", "stack overflow"} =>
        /\ origin.status = "done"
        /\ origin.result = IF OriginIsParam THEN Some("unit") ELSE None

\* a query that returns gives Some(()) exactly when the origin is a
\* parameter
ReturnedIffOriginIsParam ==
    origin.status = "done" =>
        origin.result = IF OriginIsParam THEN Some("unit") ELSE None

----------------------------------------------------------------------------
(* Code actions (handlers/code_actions/build_actions.rs): the quick-fix    *)
(* actions offered for the diagnostics the editor sends with a request.    *)

\* the most diagnostics of one code action request
MaxDiagnostics == 2

\* NumberOrString
Number(n) == [k |-> "Number", v |-> n]
String(s) == [k |-> "String", v |-> s]

\* the diagnostic codes of the model
DiagnosticCodes == {"SyntaxError", "GenericConstraintMismatch"}

\* DiagnosticCode::get_name
get_name(diagnostic_code) ==
    IF diagnostic_code = "SyntaxError" THEN "syntax-error"
    ELSE "generic-constraint-mismatch"

\* DiagnosticCode::from_str(..).ok(): the code a name stands for
from_str(s) ==
    IF \E c \in DiagnosticCodes : get_name(c) = s
    THEN Some(CHOOSE c \in DiagnosticCodes : get_name(c) = s)
    ELSE None

\* the edits and the command of the three actions, kept as what they
\* were built from
build_disable_next_line_changes(semantic_model, start, diagnostic_code) ==
    [disable |-> "next line", file_id |-> semantic_model.file_id,
     at |-> start, code |-> diagnostic_code]

build_disable_file_changes(semantic_model, diagnostic_code) ==
    [disable |-> "file", file_id |-> semantic_model.file_id,
     code |-> diagnostic_code]

make_disable_code_command(title, action, diagnostic_code, file_id, range) ==
    [title |-> title, action |-> action, code |-> diagnostic_code,
     file_id |-> file_id, range |-> range]

\* CodeAction { title, kind: QUICKFIX, edit, command, ..Default::default() }
CodeAction(title, edit, command) ==
    [title |-> title, kind |-> Some("quickfix"), edit |-> edit,
     command |-> command]

\* t!("... (%{name})", name = get_name())
title_text(text, diagnostic_code) ==
    text \o " (" \o get_name(diagnostic_code) \o ")"

\* lines 76-122: the three actions of a code, in the order pushed
disable_actions(semantic_model, diagnostic_code, file_id, range) ==
    << CodeAction(
           title_text("Disable current line diagnostic", diagnostic_code),
           Some([changes |-> build_disable_next_line_changes(
                                 semantic_model, range.start,
                                 diagnostic_code)]),
           None),
       CodeAction(
           title_text("Disable all diagnostics in current file",
                      diagnostic_code),
           Some([changes |-> build_disable_file_changes(semantic_model,
                                                        diagnostic_code)]),
           None),
       CodeAction(
           title_text("Disable all diagnostics in current project",
                      diagnostic_code),
           None,
           Some(make_disable_code_command(
                    title_text("Disable all diagnostics in current project",
                               diagnostic_code),
                    "DisableProject", diagnostic_code, file_id, range))) >>

\* lines 53-60: nothing is added
add_fix_code_action(actions, diagnostic_code, file_id, range) == actions

\* the actions are added for a syntax error as well
add_disable_code_action_any(semantic_model, actions, diagnostic_code, file_id, range) ==
    actions \o disable_actions(semantic_model, diagnostic_code, file_id, range)

add_disable_code_action(semantic_model, actions, diagnostic_code, file_id, range) ==
    IF diagnostic_code = "SyntaxError" THEN actions
    ELSE actions \o disable_actions(semantic_model, diagnostic_code,
                                    file_id, range)

\* lines 29-41, diagnostic_code being the value of from_str(..).ok()
add_code_actions(semantic_model, actions, diagnostic_code, file_id, range) ==
    IF diagnostic_code = None THEN actions
    ELSE add_disable_code_action(
             semantic_model,
             add_fix_code_action(actions, diagnostic_code.v, file_id, range),
             diagnostic_code.v, file_id, range)

\* lines 20-42: the body of the loop for one diagnostic
diagnostic_actions(semantic_model, actions, file_id, diagnostic) ==
    IF diagnostic.source = None THEN actions
    ELSE IF diagnostic.source.v # "EmmyLua" THEN actions
    ELSE IF diagnostic.code = None THEN actions
    ELSE IF diagnostic.code.v.k # "String" THEN actions
    ELSE add_code_actions(semantic_model, actions,
                          from_str(diagnostic.code.v.v), file_id,
                          diagnostic.range)

\* lines 19-43: the loop from the diagnostic at index i on
RECURSIVE collect_actions(_, _, _, _, _)
collect_actions(semantic_model, actions, file_id, diagnostics, i) ==
    IF i > Len(diagnostics) THEN actions
    ELSE collect_actions(
             semantic_model,
             diagnostic_actions(semantic_model, actions, file_id,
                                diagnostics[i]),
             file_id, diagnostics, i + 1)

\* lines 45-49
some_actions(actions) ==
    IF Len(actions) = 0 THEN None ELSE Some(actions)

build_actions(semantic_model, diagnostics) ==
    some_actions(collect_actions(semantic_model, <<>>,
                                 semantic_model.file_id, diagnostics, 1))

\* the diagnostics an editor can send
Sources == {None, Some("EmmyLua"), Some("luacheck")}

Codes ==
    {None, Some(Number(1)), Some(String("syntax-error")),
     Some(String("generic-constraint-mismatch")),
     Some(String("no-such-code"))}

Ranges == {[start |-> 1, end |-> 2], [start |-> 3, end |-> 4]}

Diagnostics ==
    { [source |-> s, code |-> c, range |-> r] :
        s \in Sources, c \in Codes, r \in Ranges }

\* the handler of a code action request calls build_actions
BuildActions ==
    /\ code_action.status = "idle"
    /\ \E diagnostics \in SeqUpTo(Diagnostics, MaxDiagnostics) :
          code_action' =
             [status |-> "done", diagnostics |-> diagnostics,
              ret |-> build_actions([file_id |-> 1], diagnostics)]
    /\ UNCHANGED <<pc, pass, hover, origin, cli, cancelled>>

\* the response is sent
ActionsSent ==
    /\ code_action.status = "done"
    /\ code_action' = NoRequest
    /\ UNCHANGED <<pc, pass, hover, origin, cli, cancelled>>

NextActions ==
    \/ BuildActions
    \/ ActionsSent

SpecActions == Init /\ [][NextActions]_vars

----------------------------------------------------------------------------
(* Properties of build_actions *)

KnownNames == {"syntax-error", "generic-constraint-mismatch"}

\* the diagnostic is of this analyzer and its code is a string naming a
\* known code other than the syntax error
Fixable(d) ==
    /\ d.source = Some("EmmyLua")
    /\ d.code # None
    /\ d.code.v.k = "String"
    /\ d.code.v.v \in KnownNames \ {"syntax-error"}

FixableAt == {n \in 1..Len(code_action.diagnostics) :
                Fixable(code_action.diagnostics[n])}

\* the k-th fixable diagnostic of the request
KthFixable(k) ==
    code_action.diagnostics[
        CHOOSE n \in FixableAt : Cardinality({m \in FixableAt : m <= n}) = k]

ResultActions ==
    IF code_action.ret = None THEN <<>> ELSE code_action.ret.v

\* the action at position p disables the code of diagnostic d: slot 0 on
\* the current line, slot 1 in the file, slot 2 in the project
DisablesAs(a, d, slot) ==
    LET name == d.code.v.v IN
    /\ a.kind = Some("quickfix")
    /\ slot = 0 =>
          /\ a.title = "Disable current line diagnostic (" \o name \o ")"
          /\ a.edit # None /\ a.command = None
          /\ a.edit.v.changes.disable = "next line"
          /\ a.edit.v.changes.at = d.range.start
          /\ get_name(a.edit.v.changes.code) = name
    /\ slot = 1 =>
          /\ a.title =
                "Disable all diagnostics in current file (" \o name \o ")"
          /\ a.edit # None /\ a.command = None
          /\ a.edit.v.changes.disable = "file"
          /\ get_name(a.edit.v.changes.code) = name
    /\ slot = 2 =>
          /\ a.title =
                "Disable all diagnostics in current project (" \o name \o ")"
          /\ a.edit = None /\ a.command # None
          /\ a.command.v.action = "DisableProject"
          /\ a.command.v.range = d.range
          /\ get_name(a.command.v.code) = name

====
